---- MODULE Spec2Model ----
(***************************************************************************)
(* FoodHub backend: the order lifecycle (routes/orders.js), the payment    *)
(* adapter and the admin status endpoint (payments and admin routers) and  *)
(* the Order model's save hooks, as a state machine over the order store.  *)
(*                                                                         *)
(* A request is a record [op, order, actor, arg, n, ok, charges]: op the    *)
(* endpoint,                                                               *)
(* order the :id parameter, actor the authenticated user, arg the string   *)
(* input (target status, webhook event type, intent status reported by the *)
(* processor, cancellation reason), n the numeric input (overall score,    *)
(* payment intent id, the clock reading of new Date() in minutes), ok      *)
(* whether the external processor accepts the call (signature verification *)
(* for the webhook), charges whether a webhook event's intent object has   *)
(* a charges list.  Of the Date fields the delivery estimate keeps its     *)
(* value; cancelledAt and rating.ratedAt are kept as set or unset.         *)
(***************************************************************************)
EXTENDS Integers, Sequences, FiniteSets, TLC

VARIABLES orders, restaurantRating, nextIntent, out, applied, inflight, watch,
          appended, menu, addresses

vars == <<orders, restaurantRating, nextIntent, out, applied, inflight, watch,
          appended, menu, addresses>>

\* ------------------------------------------------------------------ bounds
\* Timeline entries a run appends to one order.
MaxTimeline == 3
\* Latest clock reading of an assignment, in minutes.
MaxTime == 1
\* Payment intents the processor creates.
MaxIntents == 1

\* --------------------------------------------------------------- constants
DeliveryMinutes == 20

None == "none"
NoTime == -1

Users == {"c1", "r1", "r2", "d1", "d2", "a1"}
Role == [c1 |-> "customer", r1 |-> "restaurant", r2 |-> "restaurant",
         d1 |-> "delivery", d2 |-> "delivery", a1 |-> "admin"]
Restaurants == {"rA", "rB"}
Owner == [rA |-> "r1", rB |-> "r2"]
OrderIds == {"o1"}
Slots == {"s1", "s2"}

\* Order.js:67-77
Statuses == {"pending", "confirmed", "preparing", "ready_for_pickup",
             "picked_up", "on_the_way", "delivered", "cancelled", "refunded"}
\* Order.js:115
PaymentStatuses == {"pending", "processing", "completed", "failed", "refunded"}
\* Order.js:82
OrderTypes == {"delivery", "pickup"}

EventTypes == {"payment_intent.succeeded", "payment_intent.payment_failed",
               "refund.created", "charge.succeeded"}
IntentStatuses == {"succeeded", "requires_action", "requires_payment_method"}
ScoreInputs == {0, 5}
ReasonInputs == {"", "changed my mind"}

\* ------------------------------------------------------------- the menu
\* Prices are in cents.
Option(name, price) == [name |-> name, price |-> price]
Customization(name, options) == [name |-> name, options |-> options]

\* The menu items collection (MenuItem.js:29-126).
MenuCollection ==
  [burger |-> [name |-> "Burger", restaurant |-> "rA", price |-> 1000, discountPercentage |-> 0,
               preparationTime |-> 15, isAvailable |-> TRUE,
               customizations |->
                 <<Customization("Size", <<Option("Large", 200)>>),
                   Customization("Toppings", <<Option("Cheese", 100),
                                               Option("Bacon", 150)>>)>>],
   wrap |-> [name |-> "Wrap", restaurant |-> "rA", price |-> 999, discountPercentage |-> 15,
             preparationTime |-> 10, isAvailable |-> TRUE,
             customizations |->
               <<Customization("Size", <<Option("Large", 200)>>)>>],
   fries |-> [name |-> "Fries", restaurant |-> "rA", price |-> 500, discountPercentage |-> 0,
              preparationTime |-> 5, isAvailable |-> TRUE,
              customizations |-> <<>>],
   soup |-> [name |-> "Soup", restaurant |-> "rA", price |-> 700, discountPercentage |-> 0,
             preparationTime |-> 20, isAvailable |-> FALSE,
             customizations |-> <<>>],
   pizza |-> [name |-> "Pizza", restaurant |-> "rB", price |-> 1200, discountPercentage |-> 0,
              preparationTime |-> 25, isAvailable |-> TRUE,
              customizations |-> <<>>]]

\* ---------------------------------------------------------------- helpers
IsPrefix(s, t) == Len(s) <= Len(t) /\ SubSeq(t, 1, Len(s)) = s

\* A timeline entry: the status it records and the message family
\* ("updated" by a handler, "changed" by the pre-save hook).
Entry(status, message) == [status |-> status, message |-> message]

Ev(room, id, name) == [room |-> room, id |-> id, name |-> name]

\* An order document as POST /api/orders persists it (orders.js:141-169 with
\* the schema defaults of Order.js:48-173).  deliveryTracking is a single
\* nested subdocument without a default (Order.js:125), so the path is only
\* there when the stored document has it: tracking says whether it is.
NewOrder(customer, restaurant, orderType, tracking) ==
  [customer |-> customer, restaurant |-> restaurant, orderType |-> orderType,
   status |-> "pending", payStatus |-> "pending", intent |-> 0,
   tracking |-> tracking, deliveryPerson |-> None,
   trackingStatus |-> IF tracking THEN "assigned" ELSE None,
   trackingEta |-> NoTime,
   timeline |-> <<>>,
   cancellationReason |-> None, cancelledBy |-> None, cancelledAt |-> FALSE,
   rating |-> [overall |-> 0, ratedAt |-> FALSE]]

NoDoc == NewOrder(None, None, "pickup", FALSE)

\* ------------------------------------------------- middleware and lookups
\* protect + authorize(...roles): the request passes when the authenticated
\* user's role is one of the listed roles.
Authorize(actor, roles) == Role[actor] \in roles

\* Restaurant.findOne({ owner: req.user._id })
OwnedBy(actor) ==
  IF \E r \in Restaurants : Owner[r] = actor
  THEN CHOOSE r \in Restaurants : Owner[r] = actor
  ELSE None

\* req.user.restaurantId as the cancel endpoint reads it: the user schema
\* (User.js:17-94) has no such path, so the read gives undefined.
RestaurantIdOf(actor) == None

\* Order.findOne({ 'payment.stripePaymentIntentId': id })
FindByIntent(store, id) ==
  IF \E o \in DOMAIN store : store[o].intent = id
  THEN CHOOSE o \in DOMAIN store : store[o].intent = id
  ELSE None

\* ----------------------------------------------------------- Order methods
\* canBeCancelled as it would be if a picked-up order could still be
\* cancelled.
CanBeCancelledUntilOnTheWay(doc) ==
  doc.status \notin {"on_the_way", "delivered", "cancelled", "refunded"}

\* canBeCancelled as it would be if an order waiting for pickup could no
\* longer be cancelled.
CanBeCancelledBeforeReady(doc) ==
  doc.status \notin {"ready_for_pickup", "picked_up", "on_the_way", "delivered",
                     "cancelled", "refunded"}

\* Order.js:214-217
CanBeCancelled(doc) ==
  doc.status \notin {"picked_up", "on_the_way", "delivered", "cancelled", "refunded"}

\* Order.js:193-202: the second pre('save') hook, on a persisted document.
\* isModified('status') is true when the in-memory status differs from the
\* loaded one.
PreSaveTimeline(loaded, doc, pushes) ==
  IF doc.status # loaded.status
  THEN Append(pushes, Entry(doc.status, "changed"))
  ELSE pushes

\* document.save() as it would be if it wrote the whole in-memory document
\* back, the timeline included.
MongooseSaveWhole(db, loaded, doc, pushes) ==
  [f \in DOMAIN db |-> IF f = "timeline" THEN loaded.timeline \o pushes ELSE doc[f]]

\* document.save() of a persisted document: $set of every path whose value
\* differs from the loaded one, $push of the entries pushed onto timeline.
MongooseSave(db, loaded, doc, pushes) ==
  [f \in DOMAIN db |->
     IF f = "timeline" THEN db.timeline \o pushes
     ELSE IF doc[f] # loaded[f] THEN doc[f]
     ELSE db[f]]

\* ------------------------------------------------------- handler results
\* code: HTTP status; save: whether order.save() is reached; doc: the
\* in-memory document at the save; pushes: timeline.push calls of the
\* handler; events: req.io emits after the save.
Rej(code, doc) ==
  [code |-> code, save |-> FALSE, doc |-> doc, pushes |-> <<>>, events |-> <<>>]

Ok(doc, pushes, events) ==
  [code |-> 200, save |-> TRUE, doc |-> doc, pushes |-> pushes, events |-> events]

Done(doc) ==
  [code |-> 200, save |-> FALSE, doc |-> doc, pushes |-> <<>>, events |-> <<>>]

\* The status endpoint as it would be if it notified the couriers of every
\* order that becomes ready, pickup orders included.
UpdateOrderStatusNotifyingAll(req, found, doc) ==
  IF ~Authorize(req.actor, {"restaurant", "admin"}) THEN Rej(403, doc)
  ELSE IF req.arg \notin {"confirmed", "preparing", "ready_for_pickup", "cancelled"}
       THEN Rej(400, doc)
  ELSE IF ~found THEN Rej(404, doc)
  ELSE IF Role[req.actor] = "restaurant"
          /\ (OwnedBy(req.actor) = None \/ doc.restaurant # OwnedBy(req.actor))
       THEN Rej(403, doc)
  ELSE Ok([doc EXCEPT !.status = req.arg],
          <<Entry(req.arg, "updated")>>,
          <<Ev("user", doc.customer, "order_updated")>>
          \o (IF req.arg = "ready_for_pickup"
              THEN <<Ev("delivery_personnel", None, "order_ready_for_pickup")>>
              ELSE <<>>))

\* The status endpoint as it would be without the ownership check.
UpdateOrderStatusOfAnyRestaurant(req, found, doc) ==
  IF ~Authorize(req.actor, {"restaurant", "admin"}) THEN Rej(403, doc)
  ELSE IF req.arg \notin {"confirmed", "preparing", "ready_for_pickup", "cancelled"}
       THEN Rej(400, doc)
  ELSE IF ~found THEN Rej(404, doc)
  ELSE Ok([doc EXCEPT !.status = req.arg],
          <<Entry(req.arg, "updated")>>,
          <<Ev("user", doc.customer, "order_updated")>>
          \o (IF req.arg = "ready_for_pickup" /\ doc.orderType = "delivery"
              THEN <<Ev("delivery_personnel", None, "order_ready_for_pickup")>>
              ELSE <<>>))

\* PUT /api/orders/:id/status
UpdateOrderStatus(req, found, doc) ==
  IF ~Authorize(req.actor, {"restaurant", "admin"}) THEN Rej(403, doc)
  ELSE IF req.arg \notin {"confirmed", "preparing", "ready_for_pickup", "cancelled"}
       THEN Rej(400, doc)
  ELSE IF ~found THEN Rej(404, doc)
  ELSE IF Role[req.actor] = "restaurant"
          /\ (OwnedBy(req.actor) = None \/ doc.restaurant # OwnedBy(req.actor))
       THEN Rej(403, doc)
  ELSE Ok([doc EXCEPT !.status = req.arg],
          <<Entry(req.arg, "updated")>>,
          <<Ev("user", doc.customer, "order_updated")>>
          \o (IF req.arg = "ready_for_pickup" /\ doc.orderType = "delivery"
              THEN <<Ev("delivery_personnel", None, "order_ready_for_pickup")>>
              ELSE <<>>))

\* Assign-delivery as it would be without the ready_for_pickup check.
AssignDeliveryAnyStatus(req, found, doc) ==
  IF ~Authorize(req.actor, {"admin", "delivery"}) THEN Rej(403, doc)
  ELSE IF ~found THEN Rej(404, doc)
  ELSE IF doc.orderType # "delivery" THEN Rej(400, doc)
  ELSE IF ~doc.tracking THEN Rej(500, doc)
  ELSE Ok([doc EXCEPT !.deliveryPerson = req.actor,
                      !.trackingStatus = "assigned",
                      !.status = "picked_up",
                      !.trackingEta = req.n + DeliveryMinutes],
          <<Entry("assigned_delivery", "updated")>>,
          <<Ev("user", doc.customer, "delivery_assigned"),
            Ev("user", req.actor, "delivery_assigned_to_you")>>)

\* PUT /api/orders/:id/assign-delivery; req.n is the time of the request.
\* The write to order.deliveryTracking.deliveryPerson throws when the
\* document has no deliveryTracking; the catch answers 500.
AssignDelivery(req, found, doc) ==
  IF ~Authorize(req.actor, {"admin", "delivery"}) THEN Rej(403, doc)
  ELSE IF ~found THEN Rej(404, doc)
  ELSE IF doc.orderType # "delivery" THEN Rej(400, doc)
  ELSE IF doc.status # "ready_for_pickup" THEN Rej(400, doc)
  ELSE IF ~doc.tracking THEN Rej(500, doc)
  ELSE Ok([doc EXCEPT !.deliveryPerson = req.actor,
                      !.trackingStatus = "assigned",
                      !.status = "picked_up",
                      !.trackingEta = req.n + DeliveryMinutes],
          <<Entry("assigned_delivery", "updated")>>,
          <<Ev("user", doc.customer, "delivery_assigned"),
            Ev("user", req.actor, "delivery_assigned_to_you")>>)

\* The delivery-status endpoint as it would be if any courier could update
\* an order that has a delivery person.
UpdateDeliveryStatusByAnyCourier(req, found, doc) ==
  IF ~Authorize(req.actor, {"delivery"}) THEN Rej(403, doc)
  ELSE IF req.arg \notin {"picked_up", "on_the_way", "delivered"} THEN Rej(400, doc)
  ELSE IF ~found THEN Rej(404, doc)
  ELSE IF ~doc.tracking \/ doc.deliveryPerson = None THEN Rej(500, doc)
  ELSE Ok([doc EXCEPT !.trackingStatus = req.arg, !.status = req.arg],
          <<Entry(req.arg, "updated")>>,
          <<Ev("user", doc.customer, "delivery_status_updated")>>
          \o (IF req.arg = "delivered"
              THEN <<Ev("restaurant", doc.restaurant, "order_delivered")>>
              ELSE <<>>))

\* PUT /api/orders/:id/delivery-status.  Reading
\* order.deliveryTracking.deliveryPerson.toString() throws when there is no
\* deliveryTracking or no deliveryPerson; the catch answers 500.
UpdateDeliveryStatus(req, found, doc) ==
  IF ~Authorize(req.actor, {"delivery"}) THEN Rej(403, doc)
  ELSE IF req.arg \notin {"picked_up", "on_the_way", "delivered"} THEN Rej(400, doc)
  ELSE IF ~found THEN Rej(404, doc)
  ELSE IF ~doc.tracking \/ doc.deliveryPerson = None THEN Rej(500, doc)
  ELSE IF doc.deliveryPerson # req.actor THEN Rej(403, doc)
  ELSE Ok([doc EXCEPT !.trackingStatus = req.arg, !.status = req.arg],
          <<Entry(req.arg, "updated")>>,
          <<Ev("user", doc.customer, "delivery_status_updated")>>
          \o (IF req.arg = "delivered"
              THEN <<Ev("restaurant", doc.restaurant, "order_delivered")>>
              ELSE <<>>))

\* PUT /api/orders/:id/cancel
CancelOrder(req, found, doc) ==
  IF req.arg = "" THEN Rej(400, doc)
  ELSE IF ~found THEN Rej(404, doc)
  ELSE IF ~(doc.customer = req.actor
            \/ Role[req.actor] = "admin"
            \/ (Role[req.actor] = "restaurant"
                /\ doc.restaurant = RestaurantIdOf(req.actor)))
       THEN Rej(403, doc)
  ELSE IF ~CanBeCancelled(doc) THEN Rej(400, doc)
  ELSE Ok([doc EXCEPT !.status = "cancelled",
                      !.cancellationReason = req.arg,
                      !.cancelledBy = req.actor,
                      !.cancelledAt = TRUE],
          <<Entry("cancelled", "updated")>>,
          <<Ev("user", doc.customer, "order_cancelled"),
            Ev("restaurant", doc.restaurant, "order_cancelled")>>)

\* The rate endpoint as it would be without the already-rated check.
RateOrderAgain(req, found, doc) ==
  IF req.n \notin 1..5 THEN Rej(400, doc)
  ELSE IF ~found THEN Rej(404, doc)
  ELSE IF doc.customer # req.actor THEN Rej(403, doc)
  ELSE IF doc.status # "delivered" THEN Rej(400, doc)
  ELSE Ok([doc EXCEPT !.rating = [overall |-> req.n, ratedAt |-> TRUE]], <<>>, <<>>)

\* PUT /api/orders/:id/rate, up to order.save()
RateOrder(req, found, doc) ==
  IF req.n \notin 1..5 THEN Rej(400, doc)
  ELSE IF ~found THEN Rej(404, doc)
  ELSE IF doc.customer # req.actor THEN Rej(403, doc)
  ELSE IF doc.status # "delivered" THEN Rej(400, doc)
  ELSE IF doc.rating.ratedAt THEN Rej(400, doc)
  ELSE Ok([doc EXCEPT !.rating = [overall |-> req.n, ratedAt |-> TRUE]], <<>>, <<>>)

\* POST /api/payments/create-intent; req.n is the id of the intent the
\* processor creates.
CreateIntent(req, found, doc) ==
  IF ~found THEN Rej(404, doc)
  ELSE IF doc.customer # req.actor THEN Rej(403, doc)
  ELSE IF ~req.ok THEN Rej(500, doc)
  ELSE Ok([doc EXCEPT !.intent = req.n, !.payStatus = "processing"], <<>>, <<>>)

\* POST /api/payments/confirm/:paymentIntentId; req.arg is the status of the
\* retrieved intent, doc the order found by the intent id.
ConfirmPayment(req, found, doc) ==
  IF ~req.ok THEN Rej(500, doc)
  ELSE IF ~found THEN Rej(404, doc)
  ELSE IF doc.customer # req.actor THEN Rej(403, doc)
  ELSE LET events == <<Ev("user", doc.customer, "order_updated"),
                       Ev("restaurant", doc.restaurant, "new_order")>>
       IN IF req.arg = "succeeded"
          THEN Ok([doc EXCEPT !.payStatus = "completed", !.status = "confirmed"],
                  <<Entry("payment_completed", "updated")>>, events)
          ELSE IF req.arg = "requires_action"
          THEN Ok([doc EXCEPT !.payStatus = "processing"], <<>>, events)
          ELSE Ok([doc EXCEPT !.payStatus = "failed"], <<>>, events)

\* POST /api/payments/refund
RefundPayment(req, found, doc) ==
  IF ~found THEN Rej(404, doc)
  ELSE IF ~(doc.customer = req.actor \/ Role[req.actor] = "admin") THEN Rej(403, doc)
  ELSE IF doc.payStatus # "completed" THEN Rej(400, doc)
  ELSE IF ~req.ok THEN Rej(500, doc)
  ELSE Ok([doc EXCEPT !.payStatus = "refunded", !.status = "refunded"],
          <<Entry("refunded", "updated")>>,
          <<Ev("user", doc.customer, "order_updated"),
            Ev("restaurant", doc.restaurant, "order_refunded")>>)

\* handlePaymentSuccess as it would be if every succeeded event moved the
\* order one step on: pending to confirmed, confirmed to preparing.
HandlePaymentSuccessAdvancing(req, found, doc) ==
  IF ~found THEN Done(doc)
  ELSE IF ~req.charges THEN Rej(500, doc)
  ELSE Ok([doc EXCEPT !.payStatus = "completed",
                      !.status = IF @ = "pending" THEN "confirmed"
                                 ELSE IF @ = "confirmed" THEN "preparing"
                                 ELSE @],
          <<>>, <<>>)

\* handlePaymentSuccess.  Reading paymentIntent.charges.data[0] throws when
\* the event's intent object has no charges list; the webhook's catch
\* answers 500.
HandlePaymentSuccess(req, found, doc) ==
  IF ~found THEN Done(doc)
  ELSE IF ~req.charges THEN Rej(500, doc)
  ELSE Ok([doc EXCEPT !.payStatus = "completed",
                      !.status = IF @ = "pending" THEN "confirmed" ELSE @],
          <<>>, <<>>)

\* handlePaymentFailure
HandlePaymentFailure(found, doc) ==
  IF ~found THEN Done(doc)
  ELSE Ok([doc EXCEPT !.payStatus = "failed",
                      !.status = "cancelled",
                      !.cancellationReason = "Payment failed"],
          <<>>, <<>>)

\* handleRefundCreated
HandleRefundCreated(found, doc) ==
  IF ~found THEN Done(doc)
  ELSE Ok([doc EXCEPT !.payStatus = "refunded", !.status = "refunded"],
          <<>>, <<>>)

\* The webhook as it would be without the signature check.
PaymentWebhookUnverified(req, found, doc) ==
  IF req.arg = "payment_intent.succeeded" THEN HandlePaymentSuccess(req, found, doc)
  ELSE IF req.arg = "payment_intent.payment_failed" THEN HandlePaymentFailure(found, doc)
  ELSE IF req.arg = "refund.created" THEN HandleRefundCreated(found, doc)
  ELSE Done(doc)

\* POST /api/payments/webhook; req.ok is the outcome of
\* stripe.webhooks.constructEvent, req.arg the event type, req.n the intent
\* the event is about.
PaymentWebhook(req, found, doc) ==
  IF ~req.ok THEN Rej(400, doc)
  ELSE IF req.arg = "payment_intent.succeeded" THEN HandlePaymentSuccess(req, found, doc)
  ELSE IF req.arg = "payment_intent.payment_failed" THEN HandlePaymentFailure(found, doc)
  ELSE IF req.arg = "refund.created" THEN HandleRefundCreated(found, doc)
  ELSE Done(doc)

\* PUT /api/admin/orders/:id/status
AdminUpdateOrderStatus(req, found, doc) ==
  IF ~Authorize(req.actor, {"admin"}) THEN Rej(403, doc)
  ELSE IF req.arg \notin Statuses THEN Rej(400, doc)
  ELSE IF ~found THEN Rej(404, doc)
  ELSE Ok([doc EXCEPT !.status = req.arg],
          <<Entry(req.arg, "updated")>>,
          <<Ev("user", doc.customer, "order_updated")>>)

\* ------------------------------------------------------------- dispatch
Dispatch(req, found, doc) ==
  CASE req.op = "status" -> UpdateOrderStatus(req, found, doc)
    [] req.op = "assign-delivery" -> AssignDelivery(req, found, doc)
    [] req.op = "delivery-status" -> UpdateDeliveryStatus(req, found, doc)
    [] req.op = "cancel" -> CancelOrder(req, found, doc)
    [] req.op = "rate" -> RateOrder(req, found, doc)
    [] req.op = "create-intent" -> CreateIntent(req, found, doc)
    [] req.op = "confirm" -> ConfirmPayment(req, found, doc)
    [] req.op = "refund" -> RefundPayment(req, found, doc)
    [] req.op = "webhook" -> PaymentWebhook(req, found, doc)
    [] req.op = "admin-status" -> AdminUpdateOrderStatus(req, found, doc)

\* The order a request works on: Order.findById(req.params.id), or
\* Order.findOne by intent id for confirm and the webhook handlers.
Target(req, store) ==
  IF req.op \in {"confirm", "webhook"} THEN FindByIntent(store, req.n)
  ELSE IF req.order \in DOMAIN store THEN req.order
  ELSE None

\* PUT /api/orders/:id/rate after the save: count and $avg of rating.overall
\* over the restaurant's rated orders; the average is kept as the fraction
\* num/den (0/1 when there is none).
RECURSIVE SumOverall(_, _)
SumOverall(store, S) ==
  IF S = {} THEN 0
  ELSE LET o == CHOOSE x \in S : TRUE
       IN store[o].rating.overall + SumOverall(store, S \ {o})

RatedOrders(store, r) ==
  {o \in DOMAIN store : store[o].restaurant = r /\ store[o].rating.ratedAt}

\* The rating update as it would be if it took every order of the
\* restaurant, rated or not.
RestaurantRatingOfEveryOrder(store, r) ==
  LET all == {o \in DOMAIN store : store[o].restaurant = r}
  IN [num |-> SumOverall(store, all),
      den |-> IF all = {} THEN 1 ELSE Cardinality(all),
      count |-> Cardinality(all)]

RestaurantRatingOf(store, r) ==
  LET rated == RatedOrders(store, r)
  IN [num |-> SumOverall(store, rated),
      den |-> IF rated = {} THEN 1 ELSE Cardinality(rated),
      count |-> Cardinality(rated)]

\* --------------------------------------------------------------- requests
Req(op, order, actor, arg, n, ok) ==
  [op |-> op, order |-> order, actor |-> actor, arg |-> arg, n |-> n, ok |-> ok,
   charges |-> TRUE]

\* Inputs: the values each validator accepts and one it rejects.
StatusEndpointInputs == {"confirmed", "ready_for_pickup", "cancelled", "delivered"}
DeliveryStatusInputs == {"on_the_way", "delivered", "pending"}
AdminStatusInputs == {"pending", "delivered", "refunded", "bogus"}

\* The webhook event a saved request applied, if it was one.
HookOf(req, r) ==
  IF req.op = "webhook" /\ r.save THEN <<req.arg, req.n>> ELSE <<>>

\* The response of the last finished request when its endpoint is one the
\* run watches (NoResponse otherwise): its endpoint, status code, emitted
\* events, the webhook event it applied, whether that event was also the
\* one the request before it applied, and whether the order had been saved
\* by another request between this request's load and its save.
Response(req, r, stale) ==
  [op |-> req.op, code |-> r.code, events |-> r.events, hook |-> HookOf(req, r),
   again |-> HookOf(req, r) # <<>> /\ out.hook = HookOf(req, r),
   stale |-> stale]

NoResponse ==
  [op |-> None, code |-> 0, events |-> <<>>, hook |-> <<>>, again |-> FALSE,
   stale |-> FALSE]

Idle == [busy |-> FALSE, req |-> Req("none", None, None, "", 0, TRUE),
         order |-> None, loaded |-> NoDoc]

\* ------------------------------------------------------------------- Init
\* A delivery order with a deliveryTracking subdocument after the
\* restaurant marked it ready_for_pickup.
ReadyOrder ==
  [NewOrder("c1", "rA", "delivery", TRUE) EXCEPT
     !.status = "ready_for_pickup",
     !.timeline = <<Entry("ready_for_pickup", "updated"),
                    Entry("ready_for_pickup", "changed")>>]

\* The same order after courier d1 took it at clock reading 0.
AssignedOrder ==
  [ReadyOrder EXCEPT
     !.status = "picked_up",
     !.deliveryPerson = "d1",
     !.trackingEta = DeliveryMinutes,
     !.timeline = @ \o <<Entry("assigned_delivery", "updated"),
                         Entry("picked_up", "changed")>>]

\* The store holds orders of customer c1 at restaurant rA: newly placed
\* pickup and delivery orders (without a deliveryTracking subdocument, as
\* POST /api/orders stores them), and delivery orders with the subdocument
\* that are ready for pickup or that a courier has taken.
\* appended counts the timeline entries added to an order since.
InitStore ==
  /\ orders \in [OrderIds -> {NewOrder("c1", "rA", "pickup", FALSE),
                               NewOrder("c1", "rA", "delivery", FALSE),
                               ReadyOrder,
                               AssignedOrder}]
  /\ appended = [o \in OrderIds |-> 0]
  /\ restaurantRating = [r \in Restaurants |-> [num |-> 0, den |-> 1, count |-> 0]]
  /\ nextIntent = 0
  /\ out = NoResponse
  /\ applied = {}
  /\ menu = MenuCollection
  /\ addresses = <<>>
  /\ inflight = [s \in Slots |-> Idle]

\* watch holds what a run records: the endpoints whose responses are kept
\* in out, and "history" for the set of applied webhook events.
Init == InitStore /\ watch = {"webhook", "history"}

\* ------------------------------------------------- one request, start to end
\* What a handler does from its loaded document on: checks, mutation,
\* pre-save hook, save against the store as it is now, emits, response.
\* o is the id of the loaded order (None when the lookup found nothing).
Apply(req, o, doc, stale) ==
  LET r == Dispatch(req, o # None, doc)
      pushes == PreSaveTimeline(doc, r.doc, r.pushes)
  IN /\ r.save => appended[o] + Len(pushes) <= MaxTimeline
     /\ appended' = IF r.save THEN [appended EXCEPT ![o] = @ + Len(pushes)]
                    ELSE appended
     /\ orders' = IF r.save
                  THEN [orders EXCEPT ![o] = MongooseSave(orders[o], doc, r.doc, pushes)]
                  ELSE orders
     /\ restaurantRating' =
          IF r.save /\ req.op = "rate"
          THEN [restaurantRating EXCEPT
                  ![doc.restaurant] = RestaurantRatingOf(orders', doc.restaurant)]
          ELSE restaurantRating
     /\ nextIntent' = IF r.save /\ req.op = "create-intent" THEN req.n ELSE nextIntent
     /\ applied' = IF r.save /\ req.op = "webhook" /\ "history" \in watch
                   THEN applied \cup {<<o, req.arg, req.n>>}
                   ELSE applied
     /\ out' = IF req.op \in watch THEN Response(req, r, stale) ELSE NoResponse
     /\ UNCHANGED <<watch, menu, addresses>>

\* The handler run without another request in between.
Handle(req) ==
  LET o == Target(req, orders)
  IN Apply(req, o, IF o # None THEN orders[o] ELSE NoDoc, FALSE)

\* The callers each endpoint is tried with: one the route admits and at
\* least one it turns away.
StatusCallers == {"r1", "r2", "a1", "c1"}
AssignCallers == {"d1", "c1"}
DeliveryStatusCallers == {"d1", "r1"}
CancelCallers == {"c1", "a1", "r1"}
RateCallers == {"c1", "a1"}
PaymentCallers == {"c1", "d1"}
RefundCallers == {"c1", "a1", "r1"}
AdminCallers == {"a1", "r1"}

StatusReqs ==
  {Req("status", o, u, s, 0, TRUE) :
     o \in OrderIds, u \in StatusCallers, s \in StatusEndpointInputs}
AssignReqs ==
  {Req("assign-delivery", o, u, "", t, TRUE) :
     o \in OrderIds, u \in AssignCallers, t \in 0..MaxTime}
DeliveryStatusReqs ==
  {Req("delivery-status", o, u, s, 0, TRUE) :
     o \in OrderIds, u \in DeliveryStatusCallers, s \in DeliveryStatusInputs}
CancelReqs ==
  {Req("cancel", o, u, reason, 0, TRUE) :
     o \in OrderIds, u \in CancelCallers, reason \in ReasonInputs}
RateReqs ==
  {Req("rate", o, u, "", score, TRUE) :
     o \in OrderIds, u \in RateCallers, score \in ScoreInputs}
\* req.ok = FALSE is a Stripe call that throws.
CreateIntentReqs ==
  {Req("create-intent", o, u, "", nextIntent + 1, ok) :
     o \in OrderIds, u \in PaymentCallers, ok \in BOOLEAN}
ConfirmReqs ==
  {Req("confirm", None, u, st, id, TRUE) :
     u \in PaymentCallers, st \in IntentStatuses, id \in 1..nextIntent}
  \cup {Req("confirm", None, "c1", "succeeded", nextIntent + 1, FALSE)}
RefundReqs ==
  {Req("refund", o, u, "", 0, ok) :
     o \in OrderIds, u \in RefundCallers, ok \in BOOLEAN}
\* req.ok = FALSE is an event whose signature does not verify.
WebhookReqs ==
  {Req("webhook", None, None, ev, id, TRUE) : ev \in EventTypes, id \in 1..MaxIntents}
  \cup {Req("webhook", None, None, "payment_intent.succeeded", 1, FALSE)}
  \cup {[Req("webhook", None, None, "payment_intent.succeeded", id, TRUE)
            EXCEPT !.charges = FALSE] : id \in 1..MaxIntents}
AdminStatusReqs ==
  {Req("admin-status", o, u, s, 0, TRUE) :
     o \in OrderIds, u \in AdminCallers, s \in AdminStatusInputs}

UpdateStatusStep ==
  \E req \in StatusReqs : Handle(req) /\ UNCHANGED inflight

AssignDeliveryStep ==
  \E req \in AssignReqs : Handle(req) /\ UNCHANGED inflight

DeliveryStatusStep ==
  \E req \in DeliveryStatusReqs : Handle(req) /\ UNCHANGED inflight

CancelStep ==
  \E req \in CancelReqs : Handle(req) /\ UNCHANGED inflight

RateStep ==
  \E req \in RateReqs : Handle(req) /\ UNCHANGED inflight

CreateIntentStep ==
  /\ nextIntent < MaxIntents
  /\ \E req \in CreateIntentReqs : Handle(req) /\ UNCHANGED inflight

ConfirmStep ==
  \E req \in ConfirmReqs : Handle(req) /\ UNCHANGED inflight

RefundStep ==
  \E req \in RefundReqs : Handle(req) /\ UNCHANGED inflight

WebhookStep ==
  \E req \in WebhookReqs : Handle(req) /\ UNCHANGED inflight

AdminStatusStep ==
  \E req \in AdminStatusReqs : Handle(req) /\ UNCHANGED inflight

Next ==
  \/ UpdateStatusStep
  \/ AssignDeliveryStep
  \/ DeliveryStatusStep
  \/ CancelStep
  \/ RateStep
  \/ CreateIntentStep
  \/ ConfirmStep
  \/ RefundStep
  \/ WebhookStep
  \/ AdminStatusStep

Spec == Init /\ [][Next]_vars

\* The same machine watching one endpoint.
InitWebhook == InitStore /\ watch = {"webhook"}

SpecWebhook == InitWebhook /\ [][Next]_vars

InitStatus == InitStore /\ watch = {"status"}

SpecStatus == InitStatus /\ [][Next]_vars

InitAssign == InitStore /\ watch = {"assign-delivery"}

SpecAssign == InitAssign /\ [][Next]_vars

InitCancel == InitStore /\ watch = {"cancel"}

SpecCancel == InitCancel /\ [][Next]_vars

InitRate == InitStore /\ watch = {"rate"}

SpecRate == InitRate /\ [][Next]_vars

\* ------------------------------------------------------ interleaved requests
\* Requests on one order whose load and save are separate steps, so that
\* other requests can load or save in between.  The store starts with a
\* delivery order for which a payment intent has been created.
Paying(doc) == [doc EXCEPT !.intent = 1, !.payStatus = "processing"]

InitConc ==
  /\ orders = [o \in OrderIds |-> Paying(NewOrder("c1", "rA", "delivery", TRUE))]
  /\ appended = [o \in OrderIds |-> 0]
  /\ restaurantRating = [r \in Restaurants |-> [num |-> 0, den |-> 1, count |-> 0]]
  /\ nextIntent = 1
  /\ out = NoResponse
  /\ applied = {}
  /\ menu = MenuCollection
  /\ addresses = <<>>
  /\ inflight = [s \in Slots |-> Idle]
  /\ watch = {"cancel"}

\* Requests that save, each from a caller its route admits.
ConcReqs ==
  {Req("status", o, "r1", s, 0, TRUE) :
     o \in OrderIds, s \in {"confirmed", "ready_for_pickup"}}
  \cup {Req("assign-delivery", o, "d1", "", 0, TRUE) : o \in OrderIds}
  \cup {Req("cancel", o, "c1", "changed my mind", 0, TRUE) : o \in OrderIds}
  \cup {Req("rate", o, "c1", "", 5, TRUE) : o \in OrderIds}
  \cup {Req("refund", o, "c1", "", 0, TRUE) : o \in OrderIds}
  \cup {Req("admin-status", o, "a1", "delivered", 0, TRUE) : o \in OrderIds}
  \cup {Req("confirm", None, "c1", "succeeded", 1, TRUE)}
  \cup {Req("webhook", None, None, "payment_intent.succeeded", 1, TRUE)}

\* The handler up to the end of its findById / findOne.
Begin(s, req) ==
  LET o == Target(req, orders)
  IN /\ ~inflight[s].busy
     /\ inflight' = [inflight EXCEPT ![s] =
                       [busy |-> TRUE, req |-> req, order |-> o,
                        loaded |-> IF o # None THEN orders[o] ELSE NoDoc]]
     /\ UNCHANGED <<orders, restaurantRating, nextIntent, out, applied, watch,
                    appended, menu, addresses>>

\* The rest of the handler, on the document it loaded.
Finish(s) ==
  LET fl == inflight[s]
  IN /\ fl.busy
     /\ Apply(fl.req, fl.order, fl.loaded,
              fl.order # None /\ orders[fl.order] # fl.loaded)
     /\ inflight' = [inflight EXCEPT ![s] = Idle]

BeginStep == \E s \in Slots : \E req \in ConcReqs : Begin(s, req)

FinishStep == \E s \in Slots : Finish(s)

NextConc ==
  \/ BeginStep
  \/ FinishStep

SpecConc == InitConc /\ [][NextConc]_vars

\* C4: whatever request saves an order, also when the loads and saves of
\* several requests on it interleave, the timeline stored before the save
\* is a prefix of the timeline stored after it.
TimelineAppendOnly ==
  [][\A o \in OrderIds : IsPrefix(orders[o].timeline, orders'[o].timeline)]_vars

\* A cancel request has just saved an order that another request had saved
\* since the cancel loaded it, both adding to the timeline.
StaleSaveAppended ==
  /\ out.stale
  /\ out.op = "cancel"
  /\ out.code = 200
  /\ \E o \in OrderIds : Len(orders[o].timeline) >= 3

\* ------------------------------------------------------- status lifecycle
Pipeline == <<"pending", "confirmed", "preparing", "ready_for_pickup",
              "picked_up", "on_the_way", "delivered">>

Rank(status) == CHOOSE i \in 1..Len(Pipeline) : Pipeline[i] = status

InPipeline(status) == \E i \in 1..Len(Pipeline) : Pipeline[i] = status

SideExits == {"cancelled", "refunded"}

\* C1: whatever operation changes an order's status, the new status is a
\* later pipeline status than the old one, or one of the side exits
\* cancelled and refunded.
StatusOnlyMovesForward ==
  [][\A o \in OrderIds :
       orders'[o].status # orders[o].status =>
         \/ orders'[o].status \in SideExits
         \/ /\ InPipeline(orders[o].status)
            /\ InPipeline(orders'[o].status)
            /\ Rank(orders'[o].status) > Rank(orders[o].status)]_vars

\* C2: whatever operation performs the change, an order's status becomes
\* cancelled only from a status for which canBeCancelled is true.
CancelledOnlyWhenCancellable ==
  [][\A o \in OrderIds :
       (orders'[o].status = "cancelled" /\ orders[o].status # "cancelled")
         => CanBeCancelled(orders[o])]_vars

\* C3: every operation that changes the status of a stored order leaves its
\* timeline exactly one entry longer than before.
StatusChangeAppendsOneEntry ==
  [][\A o \in OrderIds :
       orders'[o].status # orders[o].status =>
         Len(orders'[o].timeline) = Len(orders[o].timeline) + 1]_vars

\* C5: whatever operation performs the change, an order's payment status
\* or order status becomes refunded only if its payment status was
\* completed immediately before.
RefundOnlyWhenCompleted ==
  [][\A o \in OrderIds :
       (\/ (orders'[o].payStatus = "refunded" /\ orders[o].payStatus # "refunded")
        \/ (orders'[o].status = "refunded" /\ orders[o].status # "refunded"))
         => orders[o].payStatus = "completed"]_vars

\* ---------------------------------------------------------------- webhooks
\* The order the webhook event of the response just given was about.
HookOrder == FindByIntent(orders, out'.hook[2])

\* C6: when the same webhook event (succeeded, payment_failed or
\* refund.created for the order's stored intent) is applied twice in a row,
\* the second application leaves order status and payment status as the
\* first left them.
WebhookTwiceInARowIdempotent ==
  [][out'.again =>
       /\ orders'[HookOrder].status = orders[HookOrder].status
       /\ orders'[HookOrder].payStatus = orders[HookOrder].payStatus]_vars

\* A succeeded event has just been applied a second time in a row.
WebhookAppliedTwice ==
  /\ out.again
  /\ out.hook[1] = "payment_intent.succeeded"
  /\ \E o \in OrderIds : orders[o].payStatus = "completed"

\* C7: re-delivering a webhook event that was already applied to an order,
\* at any later point and after any other operations on it, changes
\* neither the order's status nor its payment status.
WebhookReplayChangesNothing ==
  [][(out'.hook # <<>> /\ <<HookOrder, out'.hook[1], out'.hook[2]>> \in applied) =>
       /\ orders'[HookOrder].status = orders[HookOrder].status
       /\ orders'[HookOrder].payStatus = orders[HookOrder].payStatus]_vars

\* ----------------------------------------------------------- assign-delivery
\* C8: an assign-delivery request that succeeds found a delivery order in
\* status ready_for_pickup and leaves the acting user as assignee, status
\* picked_up and the estimate at the assignment time plus 20 minutes; any
\* other assign-delivery request is rejected and leaves the store as it was.
AssignDeliveryContract ==
  [][\A req \in AssignReqs :
       (out'.op = "assign-delivery" /\ Handle(req)) =>
         LET before == orders[req.order]
             after == orders'[req.order]
         IN /\ out'.code = 200 =>
                 /\ before.orderType = "delivery"
                 /\ before.status = "ready_for_pickup"
                 /\ after.deliveryPerson = req.actor
                 /\ after.status = "picked_up"
                 /\ after.trackingEta = req.n + 20
            /\ out'.code # 200 => (out'.code >= 400 /\ orders' = orders)]_vars

\* A courier has just been assigned at the latest clock reading.
DeliveryAssigned ==
  /\ out.op = "assign-delivery"
  /\ out.code = 200
  /\ \E o \in OrderIds :
       /\ orders[o].deliveryPerson = "d1"
       /\ orders[o].status = "picked_up"
       /\ orders[o].trackingEta = MaxTime + 20

\* ----------------------------------------------------------------- cancel
NotCancellable == {"picked_up", "on_the_way", "delivered", "cancelled", "refunded"}

\* C9: a cancel request on an order in picked_up, on_the_way, delivered,
\* cancelled or refunded is rejected, emits no event and leaves the order's
\* status, timeline and cancellation fields as they were.
CancelRejectedWhenNotCancellable ==
  [][\A req \in CancelReqs :
       (/\ out'.op = "cancel"
        /\ Handle(req)
        /\ orders[req.order].status \in NotCancellable) =>
         LET before == orders[req.order]
             after == orders'[req.order]
         IN /\ out'.code >= 400
            /\ out'.events = <<>>
            /\ after.status = before.status
            /\ after.timeline = before.timeline
            /\ after.cancellationReason = before.cancellationReason
            /\ after.cancelledBy = before.cancelledBy
            /\ after.cancelledAt = before.cancelledAt]_vars

\* A cancel request on a picked-up order has just been turned away.
CancelTurnedAway ==
  /\ out.op = "cancel"
  /\ out.code = 400
  /\ out.events = <<>>
  /\ \E o \in OrderIds : orders[o].status = "picked_up" /\ ~orders[o].cancelledAt

\* ------------------------------------------------------------------- rate
\* C10: a rate request is accepted only from the order's customer, on a
\* delivered order without a rating; a rate request on a rated order is
\* rejected, and no operation changes a rating once it is there.
RatedAtMostOnce ==
  [][/\ \A req \in RateReqs :
          (out'.op = "rate" /\ Handle(req)) =>
            LET before == orders[req.order]
            IN /\ out'.code = 200 =>
                    /\ req.actor = before.customer
                    /\ before.status = "delivered"
                    /\ ~before.rating.ratedAt
               /\ before.rating.ratedAt => out'.code >= 400
     /\ \A o \in OrderIds :
          orders[o].rating.ratedAt => orders'[o].rating = orders[o].rating]_vars

\* A rate request on an already rated order has just been rejected.
SecondRatingRejected ==
  /\ out.op = "rate"
  /\ out.code = 400
  /\ \E o \in OrderIds : orders[o].rating.ratedAt /\ orders[o].rating.overall = 5

\* ------------------------------------------------------ restaurant rating
\* A store of several delivered, unrated orders of customer c1 at the two
\* restaurants, on which only rate requests arrive.
RatingOrderIds == {"o1", "o2", "o3"}

RatingScores == {0, 1, 2, 5}

DeliveredOrder(restaurant) ==
  [NewOrder("c1", restaurant, "pickup", FALSE) EXCEPT
     !.status = "delivered",
     !.timeline = <<Entry("delivered", "updated"), Entry("delivered", "changed")>>]

InitRating ==
  /\ orders \in [RatingOrderIds -> {DeliveredOrder(r) : r \in Restaurants}]
  /\ appended = [o \in RatingOrderIds |-> 0]
  /\ restaurantRating = [r \in Restaurants |-> [num |-> 0, den |-> 1, count |-> 0]]
  /\ nextIntent = 0
  /\ out = NoResponse
  /\ applied = {}
  /\ menu = MenuCollection
  /\ addresses = <<>>
  /\ inflight = [s \in Slots |-> Idle]
  /\ watch = {"rate"}

RatingReqs ==
  {Req("rate", o, u, "", score, TRUE) :
     o \in RatingOrderIds, u \in RateCallers, score \in RatingScores}

RateAnyStep ==
  \E req \in RatingReqs : Handle(req) /\ UNCHANGED inflight

NextRating == RateAnyStep

SpecRating == InitRating /\ [][NextRating]_vars

\* The sum of the overall scores of a set of orders.
RECURSIVE ScoreSum(_)
ScoreSum(S) ==
  IF S = {} THEN 0
  ELSE LET o == CHOOSE x \in S : TRUE
       IN orders[o].rating.overall + ScoreSum(S \ {o})

RatedAt(r) ==
  {o \in DOMAIN orders : orders[o].restaurant = r /\ orders[o].rating.ratedAt}

\* C11: after an accepted rate request, every restaurant's rating count is
\* the number of its rated orders and its average (num/den) times the
\* count is the sum of their overall scores.
RestaurantRatingIsMean ==
  (out.op = "rate" /\ out.code = 200) =>
    \A r \in Restaurants :
      /\ restaurantRating[r].count = Cardinality(RatedAt(r))
      /\ restaurantRating[r].num * restaurantRating[r].count
           = ScoreSum(RatedAt(r)) * restaurantRating[r].den

\* Three orders of restaurant rA have been rated 1, 2 and 5.
ThreeOrdersRated ==
  /\ out.op = "rate"
  /\ out.code = 200
  /\ restaurantRating["rA"] = [num |-> 8, den |-> 3, count |-> 3]
  /\ {orders[o].rating.overall : o \in RatingOrderIds} = {1, 2, 5}

\* ============================================================ create order
\* POST /api/orders.  Money is kept in cents; a price before rounding is
\* kept in hundredths of a cent.  A position is a distance in km along one
\* road, so the distance between two positions is their difference.
\* Quantity a line item asks for.
MaxQuantity == 2

\* The restaurants collection.  withinHours says whether the wall clock is
\* inside today's operating hours (Restaurant.js:3-12, 95).
RestaurantCollection ==
  [rA |-> [isActive |-> TRUE, isOpen |-> TRUE, withinHours |-> TRUE,
           minimumOrder |-> 1500, deliveryFee |-> 300, deliveryRadius |-> 5,
           at |-> 0],
   rB |-> [isActive |-> TRUE, isOpen |-> TRUE, withinHours |-> FALSE,
           minimumOrder |-> 1000, deliveryFee |-> 0, deliveryRadius |-> 5,
           at |-> 0],
   rC |-> [isActive |-> TRUE, isOpen |-> FALSE, withinHours |-> TRUE,
           minimumOrder |-> 0, deliveryFee |-> 300, deliveryRadius |-> 5,
           at |-> 0],
   rD |-> [isActive |-> FALSE, isOpen |-> TRUE, withinHours |-> TRUE,
           minimumOrder |-> 0, deliveryFee |-> 300, deliveryRadius |-> 5,
           at |-> 0]]

\* seq.find(x => x.name === name): the index of the first match, 0 if none.
FindIndex(seq, name) ==
  IF \E i \in 1..Len(seq) : seq[i].name = name
  THEN CHOOSE i \in 1..Len(seq) :
         seq[i].name = name /\ \A j \in 1..(i - 1) : seq[j].name # name
  ELSE 0

\* ------------------------------------------------------- Restaurant methods
\* isCurrentlyOpen: false when the restaurant is switched off; otherwise the
\* next statement calls toLocaleLowerCase on a Date, which no Date has, and
\* the call throws a TypeError before the operating hours are read.
IsCurrentlyOpen(restaurant) ==
  IF ~restaurant.isOpen \/ ~restaurant.isActive THEN "false" ELSE "TypeError"

DistanceFrom(restaurant, at) ==
  IF at >= restaurant.at THEN at - restaurant.at ELSE restaurant.at - at

DeliversTo(restaurant, at) ==
  DistanceFrom(restaurant, at) <= restaurant.deliveryRadius

\* --------------------------------------------------------- MenuItem methods
\* The discountedPrice virtual, in hundredths of a cent.
DiscountedPrice(menuItem) ==
  IF menuItem.discountPercentage > 0
  THEN menuItem.price * (100 - menuItem.discountPercentage)
  ELSE menuItem.price * 100

\* Math.round(x * 100) / 100 of a non-negative amount: hundredths of a cent
\* to cents, halves upwards.
RoundToCents(x) == (x + 50) \div 100

\* The inner forEach of calculatePrice: the options of one chosen
\* customization that its configuration has.
RECURSIVE OptionsPrice(_, _)
OptionsPrice(options, selected) ==
  IF selected = <<>> THEN 0
  ELSE LET k == FindIndex(options, Head(selected))
       IN (IF k = 0 THEN 0 ELSE options[k].price * 100)
          + OptionsPrice(options, Tail(selected))

\* The outer forEach of calculatePrice.
RECURSIVE CustomizationsPrice(_, _)
CustomizationsPrice(menuItem, customizations) ==
  IF customizations = <<>> THEN 0
  ELSE LET i == FindIndex(menuItem.customizations, Head(customizations).name)
       IN (IF i = 0 THEN 0
           ELSE OptionsPrice(menuItem.customizations[i].options,
                             Head(customizations).selectedOptions))
          + CustomizationsPrice(menuItem, Tail(customizations))

\* calculatePrice without the customization loop.
CalculatePriceOfBaseOnly(menuItem, customizations) ==
  RoundToCents(DiscountedPrice(menuItem))

\* calculatePrice, in cents.
CalculatePrice(menuItem, customizations) ==
  RoundToCents(DiscountedPrice(menuItem)
               + CustomizationsPrice(menuItem, customizations))

\* ----------------------------------------------------- the handler's parts
\* The for loop's early returns for one line item (orders.js:82-96).
ItemRejected(item, restaurantId) ==
  \/ item.menuItem \notin DOMAIN MenuCollection
  \/ ~MenuCollection[item.menuItem].isAvailable
  \/ MenuCollection[item.menuItem].restaurant # restaurantId

\* subtotal += itemPrice * item.quantity over the loop.
RECURSIVE Subtotal(_)
Subtotal(items) ==
  IF items = <<>> THEN 0
  ELSE CalculatePrice(MenuCollection[Head(items).menuItem],
                      Head(items).customizations) * Head(items).quantity
       + Subtotal(Tail(items))

\* totalPreparationTime = Math.max(...) over the loop.
RECURSIVE TotalPreparationTime(_)
TotalPreparationTime(items) ==
  IF items = <<>> THEN 0
  ELSE LET t == MenuCollection[Head(items).menuItem].preparationTime
           rest == TotalPreparationTime(Tail(items))
       IN IF t > rest THEN t ELSE rest

\* The pricing block with a 7% tax.
PricingWithLowerTax(subtotal, restaurant, orderType, promoCode) ==
  LET tax == subtotal * 7
      deliveryFee == IF orderType = "delivery" THEN restaurant.deliveryFee * 100
                     ELSE 0
      serviceFee == subtotal * 2
      discount == IF promoCode = "WELCOME10" THEN subtotal * 10 ELSE 0
  IN [subtotal |-> subtotal * 100, tax |-> tax, deliveryFee |-> deliveryFee,
      serviceFee |-> serviceFee, discount |-> discount,
      total |-> subtotal * 100 + tax + deliveryFee + serviceFee - discount]

\* The pricing block (orders.js:124-138), every amount in hundredths of a
\* cent, from the subtotal in cents.  promoCode is the code of the promo
\* object, None without one.
Pricing(subtotal, restaurant, orderType, promoCode) ==
  LET tax == subtotal * 8
      deliveryFee == IF orderType = "delivery" THEN restaurant.deliveryFee * 100
                     ELSE 0
      serviceFee == subtotal * 2
      discount == IF promoCode = "WELCOME10" THEN subtotal * 10 ELSE 0
  IN [subtotal |-> subtotal * 100, tax |-> tax, deliveryFee |-> deliveryFee,
      serviceFee |-> serviceFee, discount |-> discount,
      total |-> subtotal * 100 + tax + deliveryFee + serviceFee - discount]

\* calculateEstimatedDeliveryTime at clock reading now, in minutes.
CalculateEstimatedDeliveryTime(doc, now) ==
  LET preparationTime == IF doc.estimatedPreparationTime = 0 THEN 30
                         ELSE doc.estimatedPreparationTime
      deliveryTime == IF doc.orderType = "delivery" THEN 20 ELSE 0
  IN now + preparationTime + deliveryTime

\* validatedItems of the loop: each line item with the menu item's name and
\* the computed unit price and line subtotal copied into it.
ValidatedItems(items) ==
  [i \in 1..Len(items) |->
     LET price == CalculatePrice(MenuCollection[items[i].menuItem],
                                 items[i].customizations)
     IN [menuItem |-> items[i].menuItem,
         name |-> MenuCollection[items[i].menuItem].name,
         price |-> price,
         quantity |-> items[i].quantity,
         customizations |-> items[i].customizations,
         subtotal |-> price * items[i].quantity]]

\* new Order({...}) of the handler followed by the estimate; orderNumber is
\* not among the fields the handler gives (<<>> is the missing number).
BuildOrder(req, restaurant, now) ==
  LET doc == [orderNumber |-> <<>>,
              items |-> ValidatedItems(req.items),
              pricing |-> Pricing(Subtotal(req.items), restaurant,
                                  req.orderType, req.promoCode),
              estimatedPreparationTime |-> TotalPreparationTime(req.items),
              estimatedDeliveryTime |-> NoTime]
             @@ NewOrder(req.actor, req.restaurant, req.orderType, FALSE)
  IN [doc EXCEPT !.estimatedDeliveryTime = CalculateEstimatedDeliveryTime(doc, now)]

\* ------------------------------------------------------ saving a new order
\* The order-number hook: "FH", the last six digits of the clock reading
\* and the order count plus one on at least three digits.  The first part
\* always has six digits, so the string is given by the pair.
OrderNumber(now, count) == <<now % 1000000, count + 1>>

\* Document validation: orderNumber is a required path.
ValidateOrder(doc) == doc.orderNumber # <<>>

\* order.save() of a new document on the store (a sequence of documents):
\* the built-in validation runs before the schema's own pre-save hooks, then
\* the order-number hook numbers the document, then the insert is refused
\* when the unique index on orderNumber already holds that number.
SaveNewOrder(store, doc, now) ==
  IF ~ValidateOrder(doc) THEN [ok |-> FALSE, store |-> store]
  ELSE LET numbered == [doc EXCEPT !.orderNumber = OrderNumber(now, Len(store))]
       IN IF \E i \in 1..Len(store) : store[i].orderNumber = numbered.orderNumber
          THEN [ok |-> FALSE, store |-> store]
          ELSE [ok |-> TRUE, store |-> Append(store, numbered)]

\* ------------------------------------------------------------- the handler
\* The express-validator chain of the route.
BodyValid(req) ==
  /\ req.restaurant # ""
  /\ Len(req.items) >= 1
  /\ req.orderType \in OrderTypes
  /\ req.orderType = "delivery" => req.address.given

Refused(code, store) == [code |-> code, store |-> store, events |-> <<>>]

\* The handler without any of its checks and with the number set before
\* the save.
CreateOrderUnchecked(req, store, now) ==
  LET restaurant == IF req.restaurant \in DOMAIN RestaurantCollection
                    THEN RestaurantCollection[req.restaurant]
                    ELSE RestaurantCollection["rA"]
      doc == [orderNumber |-> OrderNumber(now, Len(store)),
              items |-> req.items,
              pricing |-> Pricing(0, restaurant, "pickup", None),
              estimatedPreparationTime |-> 0,
              estimatedDeliveryTime |-> NoTime]
             @@ NewOrder(req.actor, req.restaurant, "pickup", FALSE)
  IN [code |-> 201, store |-> Append(store, doc),
      events |-> <<Ev("restaurant", req.restaurant, "new_order")>>]

\* POST /api/orders on the store at clock reading now.
CreateOrder(req, store, now) ==
  IF ~BodyValid(req) THEN Refused(400, store)
  ELSE IF \/ req.restaurant \notin DOMAIN RestaurantCollection
          \/ ~RestaurantCollection[req.restaurant].isActive
  THEN Refused(404, store)
  ELSE
  LET restaurant == RestaurantCollection[req.restaurant]
      open == IsCurrentlyOpen(restaurant)
  IN
  IF open = "TypeError" THEN Refused(500, store)
  ELSE IF open = "false" THEN Refused(400, store)
  ELSE IF req.orderType = "delivery" /\ ~req.address.coordinates
  THEN Refused(400, store)
  ELSE IF req.orderType = "delivery" /\ ~DeliversTo(restaurant, req.address.at)
  THEN Refused(400, store)
  ELSE IF \E i \in 1..Len(req.items) : ItemRejected(req.items[i], req.restaurant)
  THEN Refused(400, store)
  ELSE IF Subtotal(req.items) < restaurant.minimumOrder
  THEN Refused(400, store)
  ELSE
  LET saved == SaveNewOrder(store, BuildOrder(req, restaurant, now), now)
  IN IF ~saved.ok THEN Refused(500, store)
     ELSE [code |-> 201, store |-> saved.store,
           events |-> <<Ev("restaurant", req.restaurant, "new_order")>>]

\* ---------------------------------------------------------------- requests
Choice(name, selectedOptions) ==
  [name |-> name, selectedOptions |-> selectedOptions]

\* What a line item may choose: nothing, a size, two toppings, and names
\* the menu does not have.
CustomizationInputs ==
  {<<>>,
   <<Choice("Size", <<"Large">>)>>,
   <<Choice("Toppings", <<"Cheese", "Bacon">>)>>,
   <<Choice("Size", <<"Large", "Huge">>), Choice("Sauce", <<"Mayo">>)>>}

Line(menuItem, quantity, customizations) ==
  [menuItem |-> menuItem, quantity |-> quantity,
   customizations |-> customizations]

LineInputs ==
  {Line(m, q, c) : m \in {"burger", "wrap"}, q \in 1..MaxQuantity,
                   c \in CustomizationInputs}
  \cup {Line("fries", q, <<>>) : q \in 1..MaxQuantity}
  \cup {Line(m, 1, <<>>) : m \in {"soup", "pizza", "ghost"}}

ItemInputs ==
  {<<>>} \cup {<<a>> : a \in LineInputs}
         \cup {<<a, b>> : a \in {Line("burger", 1, <<>>), Line("wrap", 1, <<>>)},
                          b \in LineInputs}

Address(given, coordinates, at) ==
  [given |-> given, coordinates |-> coordinates, at |-> at]

\* No address, one without coordinates, one at the edge of the delivery
\* radius and one just outside it.
AddressInputs ==
  {Address(FALSE, FALSE, 0), Address(TRUE, FALSE, 0),
   Address(TRUE, TRUE, 5), Address(TRUE, TRUE, 6)}

CreateReq(actor, restaurant, items, orderType, address, promoCode, now) ==
  [op |-> "create", actor |-> actor, restaurant |-> restaurant,
   items |-> items, orderType |-> orderType, address |-> address,
   promoCode |-> promoCode, n |-> now]

CreateReqs ==
  {CreateReq("c1", r, items, t, a, None, now) :
     r \in {"rA", "rB", "rC", "rD", "rX"}, items \in ItemInputs,
     t \in OrderTypes \cup {"dine_in"}, a \in AddressInputs,
     now \in 0..MaxTime}

\* The response of a finished create-order request, with the request.
CreateResponse(req, r) ==
  [op |-> "create", code |-> r.code, events |-> r.events, req |-> req]

\* A create-order request has arrived at an empty order store.
InitCreate ==
  /\ orders = <<>>
  /\ appended = <<>>
  /\ restaurantRating = [r \in Restaurants |-> [num |-> 0, den |-> 1, count |-> 0]]
  /\ nextIntent = 0
  /\ out = NoResponse
  /\ applied = {}
  /\ menu = MenuCollection
  /\ addresses = <<>>
  /\ \E req \in CreateReqs :
       inflight = [s \in Slots |->
                     IF s = "s1" THEN [Idle EXCEPT !.busy = TRUE, !.req = req]
                     ELSE Idle]
  /\ watch = {"create"}

\* The waiting request runs from start to end.
CreateOrderStep ==
  /\ inflight["s1"].busy
  /\ inflight["s1"].req.op = "create"
  /\ LET req == inflight["s1"].req
         r == CreateOrder(req, orders, req.n)
     IN /\ orders' = r.store
        /\ appended' = [i \in 1..Len(r.store) |-> 0]
        /\ out' = CreateResponse(req, r)
  /\ inflight' = [inflight EXCEPT !["s1"] = Idle]
  /\ UNCHANGED <<restaurantRating, nextIntent, applied, watch, menu, addresses>>

NextCreate == CreateOrderStep

SpecCreate == InitCreate /\ [][NextCreate]_vars

\* ------------------------------------------------- create order: the claims
\* What the creation checks are meant to establish about a request.
RestaurantTakesOrders(req) ==
  /\ req.restaurant \in DOMAIN RestaurantCollection
  /\ RestaurantCollection[req.restaurant].isActive
  /\ RestaurantCollection[req.restaurant].isOpen
  /\ RestaurantCollection[req.restaurant].withinHours

ItemsOnTheMenu(req) ==
  \A i \in 1..Len(req.items) :
    /\ req.items[i].menuItem \in DOMAIN MenuCollection
    /\ MenuCollection[req.items[i].menuItem].isAvailable
    /\ MenuCollection[req.items[i].menuItem].restaurant = req.restaurant

WithinRadius(req) ==
  /\ req.address.given
  /\ req.address.coordinates
  /\ DistanceFrom(RestaurantCollection[req.restaurant], req.address.at)
       <= RestaurantCollection[req.restaurant].deliveryRadius

MeetsMinimum(req) ==
  Subtotal(req.items) >= RestaurantCollection[req.restaurant].minimumOrder

\* C12: a create-order request that passes every other creation check is
\* rejected without persisting an order when its subtotal is below the
\* restaurant's minimumOrder, and is accepted and persists an order when
\* its subtotal equals minimumOrder.
MinimumOrderEnforced ==
  [][(/\ out'.op = "create"
      /\ BodyValid(out'.req)
      /\ RestaurantTakesOrders(out'.req)
      /\ ItemsOnTheMenu(out'.req)
      /\ out'.req.orderType = "delivery" => WithinRadius(out'.req))
     => LET subtotal == Subtotal(out'.req.items)
            minimumOrder == RestaurantCollection[out'.req.restaurant].minimumOrder
        IN /\ subtotal < minimumOrder => out'.code # 201 /\ orders' = orders
           /\ subtotal = minimumOrder =>
                out'.code = 201 /\ Len(orders') = Len(orders) + 1]_vars

\* C13: with every other creation check passing, a delivery order whose
\* address lies farther from the restaurant than deliveryRadius is rejected
\* and persists no order, a delivery order within the radius (the radius
\* itself included) is accepted, and a pickup order is accepted whatever
\* its address.
DeliveryRadiusEnforced ==
  [][(/\ out'.op = "create"
      /\ BodyValid(out'.req)
      /\ RestaurantTakesOrders(out'.req)
      /\ ItemsOnTheMenu(out'.req)
      /\ MeetsMinimum(out'.req))
     => LET restaurant == RestaurantCollection[out'.req.restaurant]
            distance == DistanceFrom(restaurant, out'.req.address.at)
        IN /\ (/\ out'.req.orderType = "delivery"
               /\ out'.req.address.coordinates
               /\ distance > restaurant.deliveryRadius)
              => out'.code # 201 /\ orders' = orders
           /\ (/\ out'.req.orderType = "delivery"
               /\ out'.req.address.coordinates
               /\ distance <= restaurant.deliveryRadius)
              => out'.code = 201
           /\ out'.req.orderType = "pickup" => out'.code = 201]_vars

\* ------------------------------------------------------------ order pricing
\* The price computation of POST /api/orders on its own: the item loop and
\* the pricing block applied to line items that are all on the restaurant's
\* menu.
PromoInputs == {None, "WELCOME10", "SAVE20"}

\* The non-empty item lists whose items are all on restaurant r's menu.
MenuLists(r) ==
  {l \in ItemInputs :
     l # <<>> /\ \A i \in 1..Len(l) : ~ItemRejected(l[i], r)}

PricingReqs ==
  UNION {{[op |-> "pricing", restaurant |-> r, items |-> items,
           orderType |-> t, promoCode |-> promo] :
            items \in MenuLists(r), t \in OrderTypes, promo \in PromoInputs} :
         r \in {"rA", "rB"}}

InitPricing ==
  /\ orders = <<>>
  /\ appended = <<>>
  /\ restaurantRating = [r \in Restaurants |-> [num |-> 0, den |-> 1, count |-> 0]]
  /\ nextIntent = 0
  /\ out = NoResponse
  /\ applied = {}
  /\ menu = MenuCollection
  /\ addresses = <<>>
  /\ \E req \in PricingReqs :
       inflight = [s \in Slots |->
                     IF s = "s1" THEN [Idle EXCEPT !.busy = TRUE, !.req = req]
                     ELSE Idle]
  /\ watch = {"pricing"}

\* The loop and the pricing block run on the waiting line items.
PricingStep ==
  /\ inflight["s1"].busy
  /\ inflight["s1"].req.op = "pricing"
  /\ LET req == inflight["s1"].req
         subtotal == Subtotal(req.items)
     IN out' = [op |-> "pricing", req |-> req, subtotal |-> subtotal,
                pricing |-> Pricing(subtotal, RestaurantCollection[req.restaurant],
                                    req.orderType, req.promoCode)]
  /\ inflight' = [inflight EXCEPT !["s1"] = Idle]
  /\ UNCHANGED <<orders, appended, restaurantRating, nextIntent, applied, watch,
               menu, addresses>>

NextPricing == PricingStep

SpecPricing == InitPricing /\ [][NextPricing]_vars

\* The sum of the values of a function with a finite domain.
RECURSIVE SumFn(_)
SumFn(f) ==
  IF DOMAIN f = {} THEN 0
  ELSE LET x == CHOOSE x \in DOMAIN f : TRUE
       IN f[x] + SumFn([y \in DOMAIN f \ {x} |-> f[y]])

\* The selected options of a line item that its menu item defines: pairs
\* of a chosen customization and one of its selected options.
DefinedSelections(line) ==
  LET config == MenuCollection[line.menuItem].customizations
  IN {p \in {<<i, k>> : i \in 1..Len(line.customizations), k \in 1..3} :
        /\ p[2] <= Len(line.customizations[p[1]].selectedOptions)
        /\ \E c \in 1..Len(config) :
             /\ config[c].name = line.customizations[p[1]].name
             /\ \E o \in 1..Len(config[c].options) :
                  config[c].options[o].name
                    = line.customizations[p[1]].selectedOptions[p[2]]}

\* The menu's price of a defined selection, in cents.
SelectionPrice(line, p) ==
  LET config == MenuCollection[line.menuItem].customizations
      c == CHOOSE c \in 1..Len(config) :
             config[c].name = line.customizations[p[1]].name
      o == CHOOSE o \in 1..Len(config[c].options) :
             config[c].options[o].name
               = line.customizations[p[1]].selectedOptions[p[2]]
  IN config[c].options[o].price

\* Discounted base price plus the price of every defined selection, in
\* hundredths of a cent.
ExactUnitPrice(line) ==
  MenuCollection[line.menuItem].price
    * (100 - MenuCollection[line.menuItem].discountPercentage)
  + 100 * SumFn([p \in DefinedSelections(line) |-> SelectionPrice(line, p)])

\* The amount in cents nearest to x hundredths of a cent, halves upwards.
NearestCent(x) ==
  CHOOSE c \in 0..(x \div 100 + 1) : 100 * c - 50 <= x /\ x < 100 * c + 50

TotalIsSubtotalTaxFeesLessDiscount ==
  out.op = "pricing" =>
    LET subtotal == out.pricing.subtotal
        flatFee == 100 * RestaurantCollection[out.req.restaurant].deliveryFee
        fee == IF out.req.orderType = "delivery" THEN flatFee ELSE 0
    IN /\ subtotal = 100 * out.subtotal
       /\ 100 * out.pricing.tax = 8 * subtotal
       /\ 100 * out.pricing.serviceFee = 2 * subtotal
       /\ out.pricing.deliveryFee = fee
       /\ 100 * out.pricing.discount
            = IF out.req.promoCode = "WELCOME10" THEN 10 * subtotal ELSE 0
       /\ out.pricing.total
            = subtotal + out.pricing.tax + fee + out.pricing.serviceFee
              - out.pricing.discount
       /\ (subtotal = 200000 /\ fee = 30000 /\ out.req.promoCode = None)
            => out.pricing.total = 250000

\* A delivery order of 20.00 from a restaurant with a 3.00 fee and no promo
\* code was priced at 25.00 (amounts in hundredths of a cent).
TwentyDollarDeliveryPriced ==
  /\ out.op = "pricing"
  /\ out.req.orderType = "delivery"
  /\ out.req.promoCode = None
  /\ out.pricing.subtotal = 200000
  /\ out.pricing.deliveryFee = 30000
  /\ out.pricing.total = 250000

\* A request that passes every creation check.
PassesCreationChecks(req) ==
  /\ BodyValid(req)
  /\ RestaurantTakesOrders(req)
  /\ req.orderType = "delivery" => WithinRadius(req)
  /\ ItemsOnTheMenu(req)
  /\ MeetsMinimum(req)

\* The longest preparation time among the request's items.
LongestPreparation(req) ==
  CHOOSE t \in {MenuCollection[req.items[i].menuItem].preparationTime :
                  i \in 1..Len(req.items)} :
    \A i \in 1..Len(req.items) :
      MenuCollection[req.items[i].menuItem].preparationTime <= t

UnservableCreateRejected ==
  [][(/\ out'.op = "create"
      /\ ~RestaurantTakesOrders(out'.req) \/ ~ItemsOnTheMenu(out'.req))
     => /\ out'.code \in {400, 404, 500}
        /\ orders' = orders
        /\ \A i \in 1..Len(out'.events) : out'.events[i].name # "new_order"]_vars

\* An order placed with a restaurant that is switched off was answered 400
\* and left the store empty.
ClosedRestaurantTurnedAway ==
  /\ out.op = "create"
  /\ out.req.restaurant = "rC"
  /\ out.req.items = <<Line("burger", 2, <<>>)>>
  /\ out.code = 400
  /\ out.events = <<>>
  /\ orders = <<>>

\* ------------------------------------------------------- webhook signature
\* C18: a webhook request whose signature does not verify is answered 400
\* before any event is handled: every order stays as it was, no payment
\* handler applies the event, nothing is emitted, and the answer is the
\* same whatever the store holds for the event's intent.
UnverifiedWebhookRejected ==
  [][\A req \in WebhookReqs :
       (~req.ok /\ Handle(req))
       => /\ orders' = orders
          /\ restaurantRating' = restaurantRating
          /\ applied' = applied
          /\ out' = [op |-> "webhook", code |-> 400, events |-> <<>>,
                     hook |-> <<>>, again |-> FALSE, stale |-> FALSE]]_vars

\* An unverified succeeded event for the intent of an order whose payment
\* is being processed has been answered 400, and the order is still
\* unpaid.
UnverifiedWebhookTurnedAway ==
  /\ out.op = "webhook"
  /\ out.code = 400
  /\ \E o \in OrderIds :
       /\ orders[o].intent = 1
       /\ orders[o].payStatus = "processing"
       /\ orders[o].status = "pending"

\* ---------------------------------------------------------- terminal states
\* C19: cancelled and refunded are terminal and orders are never deleted:
\* no step changes the status of an order that is cancelled or refunded,
\* and no step removes an order from the store.
CancelledAndRefundedAreTerminal ==
  [][\A o \in DOMAIN orders :
       /\ o \in DOMAIN orders'
       /\ orders[o].status \in {"cancelled", "refunded"}
            => orders'[o].status = orders[o].status]_vars

\* ============================================================== menu edits
\* PUT /api/menu/:id, DELETE /api/menu/:id and PUT
\* /api/menu/:id/toggle-availability on the menu items collection, beside a
\* store that holds one placed order.  A menu request is a record [op, id,
\* actor, body]; body is the field the update sets, with its value.
MenuBodies ==
  {[field |-> "price", value |-> 1200], [field |-> "price", value |-> -100],
   [field |-> "name", value |-> "Special"]}

MenuReqs ==
  {[op |-> op, id |-> id, actor |-> u, body |-> b] :
     op \in {"menu-update"}, id \in {"burger", "pizza", "ghost"},
     u \in {"r1", "r2", "a1", "c1"}, b \in MenuBodies}
  \cup {[op |-> op, id |-> id, actor |-> u,
         body |-> [field |-> "isAvailable", value |-> FALSE]] :
          op \in {"menu-delete", "menu-toggle"},
          id \in {"burger", "pizza", "ghost"}, u \in {"r1", "r2", "a1", "c1"}}

\* The restaurant role's ownership check of the three handlers.
OwnsMenuItem(actor, items, id) == Owner[items[id].restaurant] = actor

MenuResult(code, items, store) == [code |-> code, menu |-> items, orders |-> store]

\* findByIdAndUpdate(id, req.body, { runValidators: true }) on one field.
UpdatedItem(item, body) ==
  IF body.field = "price" THEN [item EXCEPT !.price = body.value]
  ELSE IF body.field = "name" THEN [item EXCEPT !.name = body.value]
  ELSE [item EXCEPT !.isAvailable = body.value]

\* PUT /api/menu/:id as it would be if it also rewrote the name and the
\* price in the line items of placed orders.
UpdateMenuItemCascading(req, items, store) ==
  IF ~Authorize(req.actor, {"restaurant", "admin"}) THEN MenuResult(403, items, store)
  ELSE IF req.id \notin DOMAIN items THEN MenuResult(404, items, store)
  ELSE IF Role[req.actor] = "restaurant" /\ ~OwnsMenuItem(req.actor, items, req.id)
  THEN MenuResult(403, items, store)
  ELSE IF req.body.field = "price" /\ req.body.value < 0
  THEN MenuResult(500, items, store)
  ELSE LET updated == UpdatedItem(items[req.id], req.body)
       IN MenuResult(200, [items EXCEPT ![req.id] = updated],
            [o \in DOMAIN store |->
               [store[o] EXCEPT !.items =
                  [i \in DOMAIN store[o].items |->
                     IF store[o].items[i].menuItem = req.id
                     THEN [store[o].items[i] EXCEPT !.name = updated.name,
                                                    !.price = updated.price]
                     ELSE store[o].items[i]]]])

\* PUT /api/menu/:id
UpdateMenuItem(req, items, store) ==
  IF ~Authorize(req.actor, {"restaurant", "admin"}) THEN MenuResult(403, items, store)
  ELSE IF req.id \notin DOMAIN items THEN MenuResult(404, items, store)
  ELSE IF Role[req.actor] = "restaurant" /\ ~OwnsMenuItem(req.actor, items, req.id)
  THEN MenuResult(403, items, store)
  ELSE IF req.body.field = "price" /\ req.body.value < 0
  THEN MenuResult(500, items, store)
  ELSE MenuResult(200, [items EXCEPT ![req.id] = UpdatedItem(@, req.body)], store)

\* DELETE /api/menu/:id: the soft delete.
DeleteMenuItem(req, items, store) ==
  IF ~Authorize(req.actor, {"restaurant", "admin"}) THEN MenuResult(403, items, store)
  ELSE IF req.id \notin DOMAIN items THEN MenuResult(404, items, store)
  ELSE IF Role[req.actor] = "restaurant" /\ ~OwnsMenuItem(req.actor, items, req.id)
  THEN MenuResult(403, items, store)
  ELSE MenuResult(200, [items EXCEPT ![req.id].isAvailable = FALSE], store)

\* PUT /api/menu/:id/toggle-availability
ToggleAvailability(req, items, store) ==
  IF ~Authorize(req.actor, {"restaurant"}) THEN MenuResult(403, items, store)
  ELSE IF req.id \notin DOMAIN items THEN MenuResult(404, items, store)
  ELSE IF ~OwnsMenuItem(req.actor, items, req.id) THEN MenuResult(403, items, store)
  ELSE MenuResult(200, [items EXCEPT ![req.id].isAvailable = ~@], store)

\* The store holds one order as POST /api/orders builds and numbers it, for
\* customer c1 at restaurant rA, placed at clock reading 0.
PlacedOrder(items) ==
  [BuildOrder(CreateReq("c1", "rA", items, "pickup", Address(FALSE, FALSE, 0),
                        None, 0),
              RestaurantCollection["rA"], 0)
     EXCEPT !.orderNumber = OrderNumber(0, 0)]

InitMenu ==
  /\ \E items \in {<<Line("burger", 2, <<>>)>>,
                   <<Line("burger", 1, <<Choice("Size", <<"Large">>)>>),
                     Line("fries", 1, <<>>)>>} :
       orders = <<PlacedOrder(items)>>
  /\ appended = <<0>>
  /\ restaurantRating = [r \in Restaurants |-> [num |-> 0, den |-> 1, count |-> 0]]
  /\ nextIntent = 0
  /\ out = NoResponse
  /\ applied = {}
  /\ menu = MenuCollection
  /\ addresses = <<>>
  /\ inflight = [s \in Slots |-> Idle]
  /\ watch = {"menu"}

MenuStep(req, r) ==
  /\ menu' = r.menu
  /\ orders' = r.orders
  /\ out' = [op |-> req.op, code |-> r.code, id |-> req.id]
  /\ UNCHANGED <<appended, restaurantRating, nextIntent, applied, addresses,
                 inflight, watch>>

UpdateMenuItemStep ==
  \E req \in MenuReqs :
    req.op = "menu-update" /\ MenuStep(req, UpdateMenuItem(req, menu, orders))

DeleteMenuItemStep ==
  \E req \in MenuReqs :
    req.op = "menu-delete" /\ MenuStep(req, DeleteMenuItem(req, menu, orders))

ToggleAvailabilityStep ==
  \E req \in MenuReqs :
    req.op = "menu-toggle" /\ MenuStep(req, ToggleAvailability(req, menu, orders))

NextMenu == UpdateMenuItemStep \/ DeleteMenuItemStep \/ ToggleAvailabilityStep

SpecMenu == InitMenu /\ [][NextMenu]_vars

\* What an order shows of its line items.
ItemSnapshot(order) ==
  [i \in DOMAIN order.items |->
     [name |-> order.items[i].name, price |-> order.items[i].price,
      quantity |-> order.items[i].quantity,
      subtotal |-> order.items[i].subtotal]]

\* C21: updating, soft-deleting or toggling the availability of a menu item
\* leaves every placed order's item names, unit prices, quantities, item
\* subtotals and pricing as they were.
PlacedOrderItemsAreSnapshot ==
  [][\A o \in DOMAIN orders :
       /\ o \in DOMAIN orders'
       /\ ItemSnapshot(orders'[o]) = ItemSnapshot(orders[o])
       /\ orders'[o].pricing = orders[o].pricing]_vars

\* The burger of the placed order has been renamed, repriced and taken off
\* the menu, and the order still shows the name and the price it was
\* placed with.
MenuEditedAfterOrder ==
  /\ menu["burger"].name = "Special"
  /\ menu["burger"].price = 1200
  /\ ~menu["burger"].isAvailable
  /\ orders[1].items[1].menuItem = "burger"
  /\ orders[1].items[1].name = "Burger"
  /\ orders[1].items[1].price = 1000
  /\ orders[1].items[1].subtotal = 2000
  /\ orders[1].pricing.subtotal = 200000

\* ------------------------------------------------------ status endpoint events
\* How many of the events are the named event to the room.
EventCount(events, room, id, name) ==
  Cardinality({i \in 1..Len(events) : events[i] = Ev(room, id, name)})

\* C22: a status-endpoint request that succeeds has saved the order and
\* emits exactly one order_updated event to the channel of the order's
\* customer, and an order_ready_for_pickup event to the couriers' channel
\* exactly when the target status is ready_for_pickup and the order is a
\* delivery order, and nothing else; a rejected request emits nothing.
StatusEndpointEvents ==
  [][\A req \in StatusReqs :
       Handle(req)
       => IF out'.code = 200
          THEN /\ orders'[req.order].status = req.arg
               /\ EventCount(out'.events, "user", orders[req.order].customer,
                             "order_updated") = 1
               /\ EventCount(out'.events, "delivery_personnel", None,
                             "order_ready_for_pickup")
                    = (IF /\ req.arg = "ready_for_pickup"
                          /\ orders[req.order].orderType = "delivery"
                       THEN 1 ELSE 0)
               /\ Len(out'.events)
                    = (IF /\ req.arg = "ready_for_pickup"
                          /\ orders[req.order].orderType = "delivery"
                       THEN 2 ELSE 1)
          ELSE out'.events = <<>> /\ orders' = orders]_vars

\* A pickup order has been marked ready and only its customer was told.
PickupOrderReadyAnnounced ==
  /\ out.op = "status"
  /\ out.code = 200
  /\ out.events = <<Ev("user", "c1", "order_updated")>>
  /\ \E o \in OrderIds :
       orders[o].status = "ready_for_pickup" /\ orders[o].orderType = "pickup"

\* ------------------------------------------- status endpoint: restaurant actors
\* The status endpoint called by the restaurant owners r1 (of rA) and r2 (of
\* rB), on a store whose order is at either restaurant, beside the other
\* operations on the order.
RestaurantStatusReqs == {req \in StatusReqs : Role[req.actor] = "restaurant"}

InitRestaurantStatus ==
  /\ orders \in [OrderIds -> {NewOrder("c1", "rA", "pickup", FALSE),
                               NewOrder("c1", "rB", "delivery", FALSE),
                               ReadyOrder}]
  /\ appended = [o \in OrderIds |-> 0]
  /\ restaurantRating = [r \in Restaurants |-> [num |-> 0, den |-> 1, count |-> 0]]
  /\ nextIntent = 0
  /\ out = NoResponse
  /\ applied = {}
  /\ menu = MenuCollection
  /\ addresses = <<>>
  /\ inflight = [s \in Slots |-> Idle]
  /\ watch = {"status"}

RestaurantStatusStep ==
  \E req \in RestaurantStatusReqs : Handle(req) /\ UNCHANGED inflight

NextRestaurantStatus ==
  \/ RestaurantStatusStep
  \/ AssignDeliveryStep
  \/ CancelStep
  \/ AdminStatusStep

SpecRestaurantStatus == InitRestaurantStatus /\ [][NextRestaurantStatus]_vars

\* C23: a status-endpoint request of a restaurant-role actor changes the
\* order only when the order's restaurant is the one the actor owns and the
\* target is confirmed, preparing, ready_for_pickup or cancelled; on
\* another restaurant's order or with any other target it is rejected and
\* the order stays as it was.
RestaurantChangesOnlyOwnOrders ==
  [][\A req \in RestaurantStatusReqs :
       Handle(req)
       => IF /\ Owner[orders[req.order].restaurant] = req.actor
             /\ req.arg \in {"confirmed", "preparing", "ready_for_pickup",
                             "cancelled"}
          THEN out'.code = 200 /\ orders'[req.order].status = req.arg
          ELSE out'.code \in {400, 403} /\ orders' = orders]_vars

\* The owner of the other restaurant asked for a change of a new order and
\* was answered 403; the order is as it was placed.
OtherRestaurantTurnedAway ==
  /\ out.op = "status"
  /\ out.code = 403
  /\ \E o \in OrderIds :
       /\ orders[o].status = "pending"
       /\ orders[o].timeline = <<>>

\* --------------------------------------------- delivery-status: the couriers
\* The delivery-status endpoint called by the couriers d1 and d2, beside
\* the other operations on the order.
CourierStatusReqs ==
  {Req("delivery-status", o, u, s, 0, TRUE) :
     o \in OrderIds, u \in {"d1", "d2"}, s \in DeliveryStatusInputs}

InitCourier == InitStore /\ watch = {"delivery-status"}

CourierStatusStep ==
  \E req \in CourierStatusReqs : Handle(req) /\ UNCHANGED inflight

NextCourier ==
  \/ CourierStatusStep
  \/ UpdateStatusStep
  \/ AssignDeliveryStep
  \/ CancelStep

SpecCourier == InitCourier /\ [][NextCourier]_vars

\* What the delivery-status endpoint writes of an order.
DeliveryState(doc) ==
  <<doc.status, doc.tracking, doc.deliveryPerson, doc.trackingStatus,
    doc.trackingEta, doc.timeline>>

\* C24: a courier's delivery-status request is applied only when the
\* courier is the order's assigned delivery person; a request of another
\* courier, or on an order without an assigned delivery person, is
\* answered with an error and leaves the order's status, delivery tracking
\* and timeline as they were.
OnlyAssignedCourierUpdates ==
  [][\A req \in CourierStatusReqs :
       Handle(req)
       => IF /\ orders[req.order].tracking
             /\ orders[req.order].deliveryPerson = req.actor
          THEN req.arg \in {"picked_up", "on_the_way", "delivered"}
                 => out'.code = 200 /\ orders'[req.order].status = req.arg
          ELSE /\ out'.code \in {400, 403, 500}
               /\ DeliveryState(orders'[req.order])
                    = DeliveryState(orders[req.order])]_vars

\* Another courier asked for an update of the order courier d1 has taken
\* and was answered 403; the order is as d1 left it.
OtherCourierTurnedAway ==
  /\ out.op = "delivery-status"
  /\ out.code = 403
  /\ \E o \in OrderIds :
       /\ orders[o].deliveryPerson = "d1"
       /\ orders[o].status = "picked_up"
       /\ orders[o].trackingStatus = "assigned"

\* ------------------------------------------------- interleaved status updates
\* Status and cancel requests on one confirmed order, their loads and saves
\* interleaving.
ConfirmedOrder ==
  [NewOrder("c1", "rA", "pickup", FALSE) EXCEPT
     !.status = "confirmed",
     !.timeline = <<Entry("confirmed", "updated"), Entry("confirmed", "changed")>>]

InitRace ==
  /\ orders = [o \in OrderIds |-> ConfirmedOrder]
  /\ appended = [o \in OrderIds |-> 0]
  /\ restaurantRating = [r \in Restaurants |-> [num |-> 0, den |-> 1, count |-> 0]]
  /\ nextIntent = 0
  /\ out = NoResponse
  /\ applied = {}
  /\ menu = MenuCollection
  /\ addresses = <<>>
  /\ inflight = [s \in Slots |-> Idle]
  /\ watch = {"status", "cancel"}

RaceReqs ==
  {Req("status", o, "r1", s, 0, TRUE) :
     o \in OrderIds, s \in {"confirmed", "preparing", "ready_for_pickup"}}
  \cup {Req("cancel", o, "c1", r, 0, TRUE) : o \in OrderIds, r \in ReasonInputs}

BeginRaceStep == \E s \in Slots : \E req \in RaceReqs : Begin(s, req)

NextRace ==
  \/ BeginRaceStep
  \/ FinishStep

SpecRace == InitRace /\ [][NextRace]_vars

\* The status a request asks the store to hold.
StatusWritten(req) == IF req.op = "cancel" THEN "cancelled" ELSE req.arg

\* C25: when two requests that each load, change and save the same order
\* interleave, the later save is not rejected for the conflict, and once
\* it is done the stored status is the one its request wrote.
LastSaveWins ==
  [][\A s \in Slots :
       (/\ inflight[s].busy
        /\ inflight[s].order # None
        /\ orders[inflight[s].order] # inflight[s].loaded
        /\ Finish(s))
       => (out'.code = 200
           => orders'[inflight[s].order].status = StatusWritten(inflight[s].req))]_vars

\* ------------------------------------------------- real-time connection handshake
\* The user accounts the handshake looks up: c2 is deactivated, r3 is a
\* restaurant owner without a restaurant.
UserCollection ==
  [c1 |-> [role |-> "customer", isActive |-> TRUE],
   c2 |-> [role |-> "customer", isActive |-> FALSE],
   r1 |-> [role |-> "restaurant", isActive |-> TRUE],
   r2 |-> [role |-> "restaurant", isActive |-> FALSE],
   r3 |-> [role |-> "restaurant", isActive |-> TRUE],
   d1 |-> [role |-> "delivery", isActive |-> TRUE],
   a1 |-> [role |-> "admin", isActive |-> TRUE]]

\* A word of the handshake: a token with its payload id, whether its
\* signature matches JWT_SECRET and whether it has expired, or no word.
Token(id, signed, expired) ==
  [word |-> "jwt", id |-> id, signed |-> signed, expired |-> expired]

NoToken == [word |-> "", id |-> None, signed |-> FALSE, expired |-> FALSE]

Bearer == [word |-> "Bearer", id |-> None, signed |-> FALSE, expired |-> FALSE]

\* jwt.verify(token, process.env.JWT_SECRET) throws unless the token is a
\* signed, unexpired token.
JwtVerifies(token) == token.word = "jwt" /\ token.signed /\ ~token.expired

\* socket.handshake.auth.token || authorization?.split(' ')[1]
HandshakeToken(handshake) ==
  IF handshake.auth # NoToken THEN handshake.auth
  ELSE IF Len(handshake.authorization) >= 2 THEN handshake.authorization[2]
  ELSE NoToken

\* Restaurant.findOne({ owner: user._id })
FindRestaurantByOwner(user) ==
  IF \E r \in Restaurants : Owner[r] = user
  THEN CHOOSE r \in Restaurants : Owner[r] = user
  ELSE None

SocketRejected(message) ==
  [admitted |-> FALSE, error |-> message, userId |-> None, userRole |-> None,
   restaurantId |-> None]

SocketAdmitted(user, accounts) ==
  [admitted |-> TRUE, error |-> "", userId |-> user,
   userRole |-> accounts[user].role,
   restaurantId |-> IF accounts[user].role = "restaurant"
                    THEN FindRestaurantByOwner(user) ELSE None]

SocketAuthOfAnyAccount(handshake, accounts) ==
  LET token == HandshakeToken(handshake)
  IN IF token = NoToken
     THEN SocketRejected("Authentication error: No token provided")
     ELSE IF ~JwtVerifies(token)
     THEN SocketRejected("Authentication error: Invalid token")
     ELSE IF token.id \notin DOMAIN accounts
     THEN SocketRejected("Authentication error: User not found")
     ELSE SocketAdmitted(token.id, accounts)

socketAuth(handshake, accounts) ==
  LET token == HandshakeToken(handshake)
  IN IF token = NoToken
     THEN SocketRejected("Authentication error: No token provided")
     ELSE IF ~JwtVerifies(token)
     THEN SocketRejected("Authentication error: Invalid token")
     ELSE IF token.id \notin DOMAIN accounts
     THEN SocketRejected("Authentication error: User not found")
     ELSE IF ~accounts[token.id].isActive
     THEN SocketRejected("Authentication error: Account deactivated")
     ELSE SocketAdmitted(token.id, accounts)

TokenInputs ==
  {Token(id, signed, expired) :
     id \in DOMAIN UserCollection \cup {"ghost", None},
     signed \in BOOLEAN, expired \in BOOLEAN}

HandshakeInputs ==
  [auth : TokenInputs \cup {NoToken},
   authorization : {<<>>, <<Bearer>>}
                   \cup {<<t>> : t \in TokenInputs}
                   \cup {<<Bearer, t>> : t \in TokenInputs}]

InitSocket ==
  /\ orders = <<>>
  /\ appended = <<>>
  /\ restaurantRating = [r \in Restaurants |-> [num |-> 0, den |-> 1, count |-> 0]]
  /\ nextIntent = 0
  /\ out = NoResponse
  /\ applied = {}
  /\ menu = MenuCollection
  /\ addresses = <<>>
  /\ \E handshake \in HandshakeInputs :
       inflight = [s \in Slots |->
                     IF s = "s1"
                     THEN [Idle EXCEPT !.busy = TRUE,
                                       !.req = [op |-> "socket", handshake |-> handshake]]
                     ELSE Idle]
  /\ watch = {"socket"}

\* The middleware runs on the waiting handshake.
SocketAuthStep ==
  /\ inflight["s1"].busy
  /\ inflight["s1"].req.op = "socket"
  /\ LET handshake == inflight["s1"].req.handshake
     IN out' = [op |-> "socket", handshake |-> handshake,
                socket |-> socketAuth(handshake, UserCollection)]
  /\ inflight' = [inflight EXCEPT !["s1"] = Idle]
  /\ UNCHANGED <<orders, appended, restaurantRating, nextIntent, applied, watch,
               menu, addresses>>

NextSocket == SocketAuthStep

SpecSocket == InitSocket /\ [][NextSocket]_vars

\* The token the client supplied: the auth field's, else the credentials of
\* the authorization header.
SuppliedToken(handshake) ==
  IF handshake.auth.word = "jwt" THEN {handshake.auth}
  ELSE IF Len(handshake.authorization) >= 2 THEN {handshake.authorization[2]}
  ELSE {}

MayConnect(handshake) ==
  \E t \in SuppliedToken(handshake) :
    /\ t.signed /\ ~t.expired
    /\ t.id \in DOMAIN UserCollection
    /\ UserCollection[t.id].isActive

AuthenticationErrors ==
  {"Authentication error: No token provided",
   "Authentication error: Invalid token",
   "Authentication error: User not found",
   "Authentication error: Account deactivated",
   "Authentication error: Server error"}

\* C26: a real-time connection is admitted only when a token is supplied, it
\* verifies and it names an existing, active user; every other handshake is
\* rejected with an authentication error.  An admitted connection carries the
\* user's id and role, and a restaurant id only when the role is restaurant
\* and a restaurant owned by that user exists.
SocketAdmittedOnlyWhenAuthenticated ==
  out.op = "socket" =>
    LET h == out.handshake
        sock == out.socket
    IN /\ sock.admitted <=> MayConnect(h)
       /\ ~sock.admitted => sock.error \in AuthenticationErrors
       /\ sock.admitted =>
            \E t \in SuppliedToken(h) :
              /\ sock.userId = t.id
              /\ sock.userRole = UserCollection[t.id].role
              /\ IF /\ UserCollection[t.id].role = "restaurant"
                    /\ \E r \in Restaurants : Owner[r] = t.id
                 THEN sock.restaurantId \in {r \in Restaurants : Owner[r] = t.id}
                 ELSE sock.restaurantId = None

RestaurantOwnerConnected ==
  /\ out.op = "socket"
  /\ out.socket.admitted
  /\ out.socket.userRole = "restaurant"
  /\ out.socket.restaurantId \in Restaurants

\* ------------------------------------------------- canBeCancelled on its own
\* The order documents the method is asked about: every status the schema
\* allows, on delivery and pickup orders in every payment status.
CancellableInputs ==
  {[NewOrder("c1", "rA", t, t = "delivery") EXCEPT !.status = s, !.payStatus = p] :
     s \in Statuses, p \in PaymentStatuses, t \in OrderTypes}

InitCancellable ==
  /\ \E doc \in CancellableInputs : orders = [o \in OrderIds |-> doc]
  /\ appended = [o \in OrderIds |-> 0]
  /\ restaurantRating = [r \in Restaurants |-> [num |-> 0, den |-> 1, count |-> 0]]
  /\ nextIntent = 0
  /\ out = NoResponse
  /\ applied = {}
  /\ menu = MenuCollection
  /\ addresses = <<>>
  /\ inflight = [s \in Slots |-> Idle]
  /\ watch = {"canBeCancelled"}

\* order.canBeCancelled() is called on a stored order.
CanBeCancelledStep ==
  /\ out = NoResponse
  /\ \E o \in DOMAIN orders :
       out' = [op |-> "canBeCancelled", status |-> orders[o].status,
               payStatus |-> orders[o].payStatus,
               result |-> CanBeCancelled(orders[o])]
  /\ UNCHANGED <<orders, appended, restaurantRating, nextIntent, applied, menu,
                 addresses, inflight, watch>>

NextCancellable == CanBeCancelledStep

SpecCancellable == InitCancellable /\ [][NextCancellable]_vars

\* C27: canBeCancelled is false for picked_up, on_the_way, delivered, cancelled
\* and refunded orders and true for pending, confirmed, preparing and
\* ready_for_pickup ones.
CanBeCancelledByStatus ==
  out.op = "canBeCancelled" =>
    /\ out.status \in {"picked_up", "on_the_way", "delivered", "cancelled",
                       "refunded"} => out.result = FALSE
    /\ out.status \in {"pending", "confirmed", "preparing", "ready_for_pickup"}
         => out.result = TRUE
    /\ out.status \in {"picked_up", "on_the_way", "delivered", "cancelled",
                       "refunded", "pending", "confirmed", "preparing",
                       "ready_for_pickup"}

ReadyOrderCancellable ==
  /\ out.op = "canBeCancelled"
  /\ out.status = "ready_for_pickup"
  /\ out.result = TRUE

\* ------------------------------------------------- interleaved assignments
\* Two couriers ask for the same ready delivery order, their loads and saves
\* interleaving.  Two assignments append four timeline entries.
InitAssignRace ==
  /\ orders = [o \in OrderIds |-> ReadyOrder]
  /\ appended = [o \in OrderIds |-> MaxTimeline - 4]
  /\ restaurantRating = [r \in Restaurants |-> [num |-> 0, den |-> 1, count |-> 0]]
  /\ nextIntent = 0
  /\ out = NoResponse
  /\ applied = {}
  /\ menu = MenuCollection
  /\ addresses = <<>>
  /\ inflight = [s \in Slots |-> Idle]
  /\ watch = {"assign-delivery"}

AssignRaceReqs ==
  {Req("assign-delivery", o, u, "", t, TRUE) :
     o \in OrderIds, u \in {"d1", "d2"}, t \in 0..MaxTime}

BeginAssignStep == \E s \in Slots : \E req \in AssignRaceReqs : Begin(s, req)

NextAssignRace ==
  \/ BeginAssignStep
  \/ FinishStep

SpecAssignRace == InitAssignRace /\ [][NextAssignRace]_vars

\* C28: for one delivery order in status ready_for_pickup at most one courier
\* ever receives a successful assign-delivery response, also when two
\* couriers' requests interleave: a success is answered only while no other
\* courier is stored for the order, and the courier stored afterwards is the
\* one answered.
OneCourierPerOrder ==
  [][\A s \in Slots :
       (/\ inflight[s].busy
        /\ inflight[s].req.op = "assign-delivery"
        /\ inflight[s].order # None
        /\ Finish(s)
        /\ out'.code = 200)
       => /\ orders[inflight[s].order].deliveryPerson
               \in {None, inflight[s].req.actor}
          /\ orders'[inflight[s].order].deliveryPerson = inflight[s].req.actor]_vars

\* ------------------------------------------------- requests on a paid order
\* An order whose payment intent 1 was confirmed as succeeded.
PaidOrder ==
  [Paying(NewOrder("c1", "rA", "delivery", TRUE)) EXCEPT
     !.payStatus = "completed",
     !.status = "confirmed",
     !.timeline = <<Entry("payment_completed", "updated"),
                    Entry("confirmed", "changed")>>]

InitPaid ==
  /\ orders = [o \in OrderIds |-> PaidOrder]
  /\ appended = [o \in OrderIds |-> 0]
  /\ restaurantRating = [r \in Restaurants |-> [num |-> 0, den |-> 1, count |-> 0]]
  /\ nextIntent = 1
  /\ out = NoResponse
  /\ applied = {}
  /\ menu = MenuCollection
  /\ addresses = <<>>
  /\ inflight = [s \in Slots |-> Idle]
  /\ watch = {"create-intent", "webhook", "refund"}

\* POST /create-intent for an order that already has an intent: one more
\* intent than MaxIntents.
CreateIntentAgainStep ==
  /\ nextIntent <= MaxIntents
  /\ \E req \in CreateIntentReqs : Handle(req) /\ UNCHANGED inflight

NextPaid ==
  \/ CreateIntentAgainStep
  \/ WebhookStep
  \/ RefundStep

SpecPaid == InitPaid /\ [][NextPaid]_vars

\* C29: payment status never regresses: once an order's payment status is
\* completed no operation changes it to pending, processing or failed; from
\* completed it changes only to refunded, and from refunded not at all.
PaymentStatusNeverRegresses ==
  [][\A o \in DOMAIN orders :
       /\ orders[o].payStatus = "completed"
            => orders'[o].payStatus \in {"completed", "refunded"}
       /\ orders[o].payStatus = "refunded"
            => orders'[o].payStatus = "refunded"]_vars

\* ------------------------------------------------- the user's addresses
\* The address book of one user, a sequence of [id, isDefault]; the requests
\* of that user run one at a time.
MaxAddresses == 3

AddressIds == 1..MaxAddresses

\* A JSON value of the request body's isDefault; absent is undefined.
Json(type, text) == [type |-> type, text |-> text]

IsDefaultInputs ==
  {Json("undefined", ""), Json("boolean", "true"), Json("boolean", "false"),
   Json("string", "false"), Json("string", "maybe")}

\* JavaScript truthiness of a body value.
Truthy(v) ==
  \/ v.type = "boolean" /\ v.text = "true"
  \/ v.type = "string" /\ v.text # ""

\* Mongoose's Boolean cast of a value assigned to isDefault: 'true', '1' and
\* 'yes' are true, 'false', '0' and 'no' are false, other strings fail.
CastBoolean(v) ==
  IF v.text \in {"true", "1", "yes"} THEN [ok |-> TRUE, value |-> TRUE]
  ELSE IF v.text \in {"false", "0", "no"} THEN [ok |-> TRUE, value |-> FALSE]
  ELSE [ok |-> FALSE, value |-> FALSE]

JsonBoolean(b) == Json("boolean", IF b THEN "true" ELSE "false")

AddressResult(code, list) == [code |-> code, addresses |-> list]

\* users.js:68-118
AddAddress(id, isDefaultBody, list) ==
  LET isDefault == IF isDefaultBody.type = "undefined" THEN JsonBoolean(FALSE)
                   ELSE isDefaultBody
      others == IF Truthy(isDefault)
                THEN [i \in DOMAIN list |-> [list[i] EXCEPT !.isDefault = FALSE]]
                ELSE list
      mark == IF Truthy(isDefault) THEN isDefault ELSE JsonBoolean(Len(list) = 0)
      cast == CastBoolean(mark)
  IN IF ~cast.ok THEN AddressResult(500, list)
     ELSE AddressResult(201, Append(others, [id |-> id, isDefault |-> cast.value]))

\* user.addresses.id(param): the parameter is cast to an ObjectId, so the
\* hexadecimal digits match in either case.
AddressById(list, param) ==
  IF \E i \in DOMAIN list : list[i].id = param.id
  THEN CHOOSE i \in DOMAIN list : list[i].id = param.id
  ELSE 0

\* addr._id.toString() === req.params.addressId: toString() is lower case.
SameIdString(addr, param) == addr.id = param.id /\ ~param.upper

\* users.js:123-174
UpdateAddress(param, isDefaultBody, list) ==
  LET at == AddressById(list, param)
  IN IF at = 0 THEN AddressResult(404, list)
     ELSE IF isDefaultBody.type = "undefined" THEN AddressResult(200, list)
     ELSE IF Truthy(isDefaultBody)
     THEN AddressResult(200,
            [i \in DOMAIN list |->
               [list[i] EXCEPT !.isDefault = SameIdString(list[i], param)]])
     ELSE LET cleared == [list EXCEPT ![at].isDefault = FALSE]
          IN IF \E i \in DOMAIN cleared : cleared[i].isDefault
             THEN AddressResult(200, cleared)
             ELSE AddressResult(200, [cleared EXCEPT ![1].isDefault = TRUE])

Without(list, at) ==
  [i \in 1..(Len(list) - 1) |-> IF i < at THEN list[i] ELSE list[i + 1]]

\* users.js:179-212.  Subdocuments have remove() up to Mongoose 6; from
\* Mongoose 7 on the call throws and the request ends with 500.
DeleteAddress(param, hasRemove, list) ==
  LET at == AddressById(list, param)
  IN IF at = 0 THEN AddressResult(404, list)
     ELSE IF ~hasRemove THEN AddressResult(500, list)
     ELSE LET rest == Without(list, at)
          IN IF list[at].isDefault /\ Len(rest) > 0
             THEN AddressResult(200, [rest EXCEPT ![1].isDefault = TRUE])
             ELSE AddressResult(200, rest)

AddressParams == [id : AddressIds, upper : BOOLEAN]

InitAddress ==
  /\ orders = <<>>
  /\ appended = <<>>
  /\ restaurantRating = [r \in Restaurants |-> [num |-> 0, den |-> 1, count |-> 0]]
  /\ nextIntent = 0
  /\ out = NoResponse
  /\ applied = {}
  /\ menu = MenuCollection
  /\ addresses = <<>>
  /\ inflight = [s \in Slots |-> Idle]
  /\ watch = {"addresses"}

AddressStep(op, r) ==
  /\ addresses' = r.addresses
  /\ out' = [op |-> op, code |-> r.code]
  /\ UNCHANGED <<orders, appended, restaurantRating, nextIntent, applied, menu,
                 inflight, watch>>

AddAddressStep ==
  /\ \A s \in Slots : ~inflight[s].busy
  /\ Len(addresses) < MaxAddresses
  /\ \E id \in AddressIds \ {addresses[i].id : i \in DOMAIN addresses} :
       \E isDefault \in IsDefaultInputs :
         AddressStep("add-address", AddAddress(id, isDefault, addresses))

UpdateAddressStep ==
  /\ \A s \in Slots : ~inflight[s].busy
  /\ \E param \in AddressParams : \E isDefault \in IsDefaultInputs :
       AddressStep("update-address", UpdateAddress(param, isDefault, addresses))

DeleteAddressStep ==
  /\ \A s \in Slots : ~inflight[s].busy
  /\ \E param \in AddressParams : \E hasRemove \in BOOLEAN :
       AddressStep("delete-address", DeleteAddress(param, hasRemove, addresses))

NextAddress == AddAddressStep \/ UpdateAddressStep \/ DeleteAddressStep

SpecAddress == InitAddress /\ [][NextAddress]_vars

\* C30: after any sequence of add-address, update-address and delete-address
\* requests of one user, run one at a time, a non-empty address list has
\* exactly one address marked default.
ExactlyOneDefaultAddress ==
  Len(addresses) > 0
    => Cardinality({i \in DOMAIN addresses : addresses[i].isDefault}) = 1

====
